---- MODULE Spec2Model ----
(***************************************************************************)
(* A model of the schema-specific ("raw") part of the Avro C library:      *)
(* the raw resolvers of raw_resolvers.c, the raw consume functions of      *)
(* raw_consume.c, the comparisons of raw_compare.c, the consumer graph     *)
(* release of consumer.c, and the containers of map.c and string.c.        *)
(*                                                                         *)
(* Pointers are positive numbers and NULL is 0.  An allocation returns     *)
(* the smallest address that is not live, so a freed address can be        *)
(* handed out again.  Allocations are taken to succeed except in the       *)
(* packed array, whose append reports failure to its callers.              *)
(*                                                                         *)
(* A C function is one operator, named as in the source; where the         *)
(* function works in stages, the later stages are operators of their own   *)
(* that take the state the earlier stage produced.                         *)
(***************************************************************************)
EXTENDS Integers, Sequences, FiniteSets, TLC

VARIABLES
    heap,     \* live avro_specific_resolver_t / avro_consumer_t objects, by address
    mem,      \* the caller's avro_memoize_t: <<key1, key2>> -> resolver address
    refs,     \* references the consumers hold on each schema
    err,      \* the message last given to avro_set_error ("" when none)
    slot,     \* the destination the resolver writes into (user_data)
    last,     \* the call just made: its arguments, results and event log
    map,      \* an avro_raw_map_t (with its avro_raw_array_t of elements)
    keybuf,   \* the caller's key buffers: address -> current contents
    bufs      \* the byte blocks of the avro_raw_string_t values: address -> bytes

vars == <<heap, mem, refs, err, slot, last, map, keybuf, bufs>>

NULL == 0

(***************************************************************************)
(* Bounds of the model.                                                    *)
(***************************************************************************)
MaxBranches == 2      \* branches of a writer union
MaxStrLen == 2        \* bytes in a bytes/string value
NumConsumers == 3     \* consumers of a consumer graph
MaxElements == 2      \* elements of a raw array or raw map

(***************************************************************************)
(* Schemas.  A schema is identified by its structure; the branches of a    *)
(* union are non-union schemas of pairwise distinct kinds.                 *)
(***************************************************************************)
RawTypes == {"boolean", "bytes", "double", "float", "int", "long", "null", "string"}

Kinds == RawTypes \cup {"record"}

Prim(k) == [type |-> k, branches |-> <<>>]

Union(bs) == [type |-> "union", branches |-> bs]

NoSchema == Prim("none")

\* The kinds the branches of the writer unions are drawn from.
BranchKinds == {"null", "int", "long", "string", "record"}

BranchSeqs ==
    {bs \in UNION {[1..n -> BranchKinds] : n \in 0..MaxBranches} :
        \A i, j \in 1..Len(bs) : i # j => bs[i] # bs[j]}

WriterSchemas == {Prim(k) : k \in Kinds} \cup {Union(bs) : bs \in BranchSeqs}

is_avro_union(wschema) == wschema.type = "union"

avro_schema_union_size(wschema) == Len(wschema.branches)

avro_schema_union_branch(wschema, i) == Prim(wschema.branches[i + 1])

(***************************************************************************)
(* The state a call works on, threaded through the calls it makes: the     *)
(* heap, the memoization cache, the schema references, the error message,  *)
(* the set of consumers being freed, and a log of what the call did.       *)
(***************************************************************************)
Ev(e, id, s) == [ev |-> e, id |-> id, schema |-> s]

Log(c, e, id, s) == [c EXCEPT !.log = Append(@, Ev(e, id, s))]

Ctx(h, m, r, e) ==
    [heap |-> h, mem |-> m, refs |-> r, err |-> e, freeing |-> {},
     log |-> <<>>, result |-> NULL, calloc0_null |-> FALSE]

EmptyFun == [x \in {} |-> NULL]

NewAddr(h) == CHOOSE p \in 1..(Cardinality(DOMAIN h) + 1) : p \notin DOMAIN h

HeapPut(h, p, obj) == [x \in DOMAIN h \cup {p} |-> IF x = p THEN obj ELSE h[x]]

HeapDel(h, p) == [x \in DOMAIN h \ {p} |-> h[x]]

RefCount(r, s) == IF s \in DOMAIN r THEN r[s] ELSE 0

RefSet(r, s, n) ==
    [x \in (IF n = 0 THEN DOMAIN r \ {s} ELSE DOMAIN r \cup {s}) |->
        IF x = s THEN n ELSE r[x]]

avro_schema_incref(c, s) ==
    Log([c EXCEPT !.refs = RefSet(@, s, RefCount(@, s) + 1)], "incref", NULL, s)

avro_schema_decref(c, s) ==
    Log([c EXCEPT !.refs = RefSet(@, s, RefCount(@, s) - 1)], "decref", NULL, s)

avro_set_error(c, msg) == Log([c EXCEPT !.err = msg], msg, NULL, NoSchema)

(***************************************************************************)
(* The memoization cache (avro/data.h).                                    *)
(***************************************************************************)
avro_memoize_get(m, key1, key2) == <<key1, key2>> \in DOMAIN m

avro_memoize_set(m, key1, key2, result) ==
    [k \in DOMAIN m \cup {<<key1, key2>>} |->
        IF k = <<key1, key2>> THEN result ELSE m[k]]

avro_memoize_delete(m, key1, key2) ==
    [k \in DOMAIN m \ {<<key1, key2>>} |-> m[k]]

(***************************************************************************)
(* Consumers.  memset(consumer, 0, ...) gives ZeroedResolver.              *)
(***************************************************************************)
ZeroedResolver ==
    [schema |-> NoSchema, free |-> FALSE, value_cb |-> "none",
     union_branch |-> FALSE, has_children |-> FALSE, child_consumers |-> <<>>,
     branch_selector |-> FALSE]

\* A read of *p: of a live object, or of freed memory.
Touch(c, p) ==
    IF p \in DOMAIN c.heap THEN Log(c, "read", p, NoSchema)
    ELSE Log(c, "use_after_free", p, NoSchema)

Deref(c, p) == IF p \in DOMAIN c.heap THEN c.heap[p] ELSE ZeroedResolver

avro_specific_resolver_free(c, consumer) ==
    IF consumer \in DOMAIN c.heap
    THEN Log([c EXCEPT !.heap = HeapDel(@, consumer)], "free", consumer, NoSchema)
    ELSE Log(c, "double_free", consumer, NoSchema)

RECURSIVE avro_consumer_free_cycles(_, _)
RECURSIVE FreeChildren(_, _, _)

\* consumer.c:50-53: one child of the loop.
FreeChild(child, c) ==
    IF child # NULL THEN avro_consumer_free_cycles(child, c) ELSE c

\* The loop of consumer.c:49-54, from child i on.
FreeChildren(consumer, i, c) ==
    IF i >= Len(Deref(c, consumer).child_consumers) THEN c
    ELSE FreeChildren(consumer, i + 1,
             FreeChild(Deref(c, consumer).child_consumers[i + 1],
                       Touch(c, consumer)))

FreeEnter_keepref(consumer, c) ==
    Touch([Log(c, "visit", consumer, NoSchema)
              EXCEPT !.freeing = @ \cup {consumer}], consumer)

\* consumer.c:44-46: enter the freeing set, drop the schema reference.
FreeEnter(consumer, c) ==
    avro_schema_decref(
        Touch([Log(c, "visit", consumer, NoSchema)
                  EXCEPT !.freeing = @ \cup {consumer}], consumer),
        Deref(c, consumer).schema)

\* consumer.c:47-57: the children, then the child array.
FreeArray(consumer, c) ==
    IF Deref(c, consumer).has_children
    THEN Log(FreeChildren(consumer, 0, c), "free_children", consumer, NoSchema)
    ELSE c

\* consumer.c:59-61: the free callback.
FreeCallback(consumer, c) ==
    IF Deref(c, consumer).free
    THEN avro_specific_resolver_free(Touch(c, consumer), consumer)
    ELSE Touch(c, consumer)

\* The schema reference is dropped after the children and the callback.
avro_consumer_free_cycles_late(consumer, c) ==
    IF consumer \in c.freeing THEN c
    ELSE avro_schema_decref(
             FreeCallback(consumer,
                 FreeArray(consumer, FreeEnter_keepref(consumer, c))),
             Deref(c, consumer).schema)

\* The free callback is run before the children are visited.
avro_consumer_free_cycles_early(consumer, c) ==
    IF consumer \in c.freeing THEN c
    ELSE FreeArray(consumer, FreeCallback(consumer, FreeEnter(consumer, c)))

avro_consumer_free_cycles(consumer, c) ==
    IF consumer \in c.freeing THEN c
    ELSE FreeCallback(consumer, FreeArray(consumer, FreeEnter(consumer, c)))

avro_consumer_free(consumer, c) ==
    [avro_consumer_free_cycles(consumer, [c EXCEPT !.freeing = {}])
        EXCEPT !.freeing = {}]

\* avro_calloc of zero bytes returns NULL or an empty block (c.calloc0_null).
avro_consumer_allocate_children(c, consumer, num_children) ==
    [c EXCEPT !.heap[consumer].has_children = ~(num_children = 0 /\ c.calloc0_null),
              !.heap[consumer].child_consumers = [i \in 1..num_children |-> NULL]]

(***************************************************************************)
(* The raw resolvers (raw_resolvers.c).  The eight avro_raw_X_try          *)
(* functions differ in the schema test and in the callback they install;   *)
(* X names the raw type, and &avro_raw_X_memoize_key is modelled by X.     *)
(***************************************************************************)
is_avro(X, wschema) == wschema.type = X

\* avro_new, memset, the callbacks, avro_schema_incref, avro_memoize_set.
TryAccept(X, wschema, c, consumer) ==
    [avro_schema_incref(
         Log([c EXCEPT !.heap = HeapPut(@, consumer,
                  [ZeroedResolver EXCEPT !.free = TRUE, !.schema = wschema,
                                         !.value_cb = X])],
             "alloc", consumer, NoSchema),
         wschema)
        EXCEPT !.mem = avro_memoize_set(@, X, wschema, consumer),
               !.result = consumer]

\* The schema test is left out: every non-union writer is accepted.
avro_raw_try_any(X, wschema, c) ==
    IF ~is_avro_union(wschema) THEN TryAccept(X, wschema, c, NewAddr(c.heap))
    ELSE [c EXCEPT !.result = NULL]

avro_raw_try(X, wschema, c) ==
    IF is_avro(X, wschema) THEN TryAccept(X, wschema, c, NewAddr(c.heap))
    ELSE [c EXCEPT !.result = NULL]

RECURSIVE avro_raw_resolver_memoized(_, _, _)
RECURSIVE ResolveBranches(_, _, _, _, _)

\* raw_resolvers.c:479-483: note the branch, store it as child i.
StoreBranch(result, i, some_branch_compatible, c) ==
    [c |-> [c EXCEPT !.heap[result].child_consumers[i + 1] = c.result],
     some_branch_compatible |-> some_branch_compatible \/ c.result # NULL]

\* The loop of raw_resolvers.c:474-484, from branch i on.
ResolveBranches(X, wschema, result, i, st) ==
    IF i >= avro_schema_union_size(wschema) THEN st
    ELSE ResolveBranches(X, wschema, result, i + 1,
             StoreBranch(result, i, st.some_branch_compatible,
                 avro_raw_resolver_memoized(X,
                     avro_schema_union_branch(wschema, i), st.c)))

\* raw_resolvers.c:461-470: the union resolver, its cache entry, its children.
UnionAllocate(X, wschema, c, result) ==
    avro_consumer_allocate_children(
        Log([avro_schema_incref(
                 Log([c EXCEPT !.heap = HeapPut(@, result,
                          [ZeroedResolver EXCEPT !.free = TRUE,
                                                 !.schema = wschema])],
                     "alloc", result, NoSchema),
                 wschema)
                EXCEPT !.mem = avro_memoize_set(@, X, wschema, result)],
            "memoize_set", result, wschema),
        result, avro_schema_union_size(wschema))

\* The failure path leaves the cache entry in place.
UnionFail_nodelete(X, wschema, c) ==
    [avro_set_error(c, "No branches in writer union are compatible")
        EXCEPT !.result = NULL]

\* raw_resolvers.c:487-491, after avro_consumer_free.
UnionFail(X, wschema, c) ==
    [avro_set_error(c, "No branches in writer union are compatible")
        EXCEPT !.mem = avro_memoize_delete(@, X, wschema), !.result = NULL]

\* The failure path forgets avro_consumer_free.
UnionFinish_leak(X, wschema, result, st) ==
    IF ~st.some_branch_compatible THEN UnionFail(X, wschema, st.c)
    ELSE [st.c EXCEPT !.heap[result].union_branch = TRUE, !.result = result]

\* raw_resolvers.c:486-496.
UnionFinish(X, wschema, result, st) ==
    IF ~st.some_branch_compatible
    THEN UnionFail(X, wschema, avro_consumer_free(result, st.c))
    ELSE [st.c EXCEPT !.heap[result].union_branch = TRUE, !.result = result]

UnionBuild(X, wschema, c, result) ==
    UnionFinish(X, wschema, result,
        ResolveBranches(X, wschema, result, 0,
            [c |-> UnionAllocate(X, wschema, c, result),
             some_branch_compatible |-> FALSE]))

avro_specific_resolve_writer_union(X, wschema, c) ==
    IF ~is_avro_union(wschema) THEN [c EXCEPT !.result = NULL]
    ELSE UnionBuild(X, wschema, c, NewAddr(c.heap))

\* raw_resolvers.c:60-64.
MemoizedAfterUnion(c) ==
    IF c.result # NULL THEN c
    ELSE [avro_set_error(c, "Cannot store into raw type") EXCEPT !.result = NULL]

\* raw_resolvers.c:55-59.
MemoizedAfterTry(X, wschema, c) ==
    IF c.result # NULL THEN c
    ELSE MemoizedAfterUnion(avro_specific_resolve_writer_union(X, wschema, c))

\* The cache is not consulted.
avro_raw_resolver_memoized_nolookup(X, wschema, c) ==
    MemoizedAfterTry(X, wschema, avro_raw_try(X, wschema, c))

avro_raw_resolver_memoized(X, wschema, c) ==
    IF avro_memoize_get(c.mem, X, wschema)
    THEN [c EXCEPT !.result = c.mem[<<X, wschema>>]]
    ELSE MemoizedAfterTry(X, wschema, avro_raw_try(X, wschema, c))

\* avro_raw_X_resolver_new: a cache of its own, dropped before returning.
avro_raw_resolver_new(X, wschema, c) ==
    avro_raw_resolver_memoized(X, wschema, [c EXCEPT !.mem = EmptyFun])

(***************************************************************************)
(* Byte blocks.  A block is a sequence of bytes, Uninit where nothing has  *)
(* been written yet.  m is the memory a call works on: the blocks and a    *)
(* log of what the call did to them.                                       *)
(***************************************************************************)
Uninit == 0 - 1

Bytes == {0, 97}

Mem(b) == [bufs |-> b, log |-> <<>>]

MLog(m, e, id) == [m EXCEPT !.log = Append(@, Ev(e, id, NoSchema))]

MallocAt(m, size, p) ==
    [m |-> [m EXCEPT !.bufs = HeapPut(@, p, [i \in 1..size |-> Uninit])],
     ptr |-> p]

avro_malloc(m, size) == MallocAt(m, size, NewAddr(m.bufs))

\* avro_free(ptr, sz), and the avro_alloc_free of an avro_raw_string_t.
avro_alloc_free(m, ptr, sz) ==
    IF ptr = NULL THEN m
    ELSE IF ptr \in DOMAIN m.bufs /\ Len(m.bufs[ptr]) = sz
         THEN MLog([m EXCEPT !.bufs = HeapDel(@, ptr)], "avro_alloc_free", ptr)
         ELSE MLog(m, "bad_free", ptr)

\* The n bytes at ptr, as memcpy and memcmp read them.
MemRead(m, ptr, n) ==
    [i \in 1..n |->
        IF ptr \in DOMAIN m.bufs /\ i <= Len(m.bufs[ptr]) THEN m.bufs[ptr][i]
        ELSE Uninit]

\* bytes stored at ptr + off.
MemWrite(m, ptr, off, bytes) ==
    IF ptr \notin DOMAIN m.bufs THEN MLog(m, "bad_write", ptr)
    ELSE IF off + Len(bytes) > Len(m.bufs[ptr]) THEN MLog(m, "overflow", ptr)
    ELSE [m EXCEPT !.bufs[ptr] =
              [i \in 1..Len(@) |->
                  IF i > off /\ i <= off + Len(bytes) THEN bytes[i - off] ELSE @[i]]]

(***************************************************************************)
(* avro_raw_string_t (string.c).  free is the name of the free function,   *)
(* "NULL" when there is none.                                              *)
(***************************************************************************)
avro_raw_string_init ==
    [size |-> 0, allocated_size |-> 0, buf |-> NULL, free |-> "NULL", our_buf |-> 0]

\* A release function of the caller (avro_free_func_t): it frees the sz
\* bytes at ptr that the caller allocated.
release(m, ptr, sz) ==
    IF ptr \in DOMAIN m.bufs /\ Len(m.bufs[ptr]) = sz
    THEN MLog([m EXCEPT !.bufs = HeapDel(@, ptr)], "release", ptr)
    ELSE MLog(m, "bad_release", ptr)

\* str->free(str->buf, str->allocated_size)
CallFree(m, str) ==
    IF str.free = "avro_alloc_free"
    THEN avro_alloc_free(m, str.buf, str.allocated_size)
    ELSE IF str.free = "release"
         THEN release(m, str.buf, str.allocated_size)
         ELSE MLog(m, str.free, str.buf)

\* The free function is forgotten, not called.
avro_raw_string_free_buf_norelease(m, str) ==
    [m |-> m,
     str |-> [str EXCEPT !.free = "NULL", !.buf = NULL, !.allocated_size = 0]]

avro_raw_string_free_buf(m, str) ==
    [m |-> IF str.free # "NULL" THEN CallFree(m, str) ELSE m,
     str |-> [str EXCEPT !.free = "NULL", !.buf = NULL, !.allocated_size = 0]]

\* The buffer is taken for one of the string's own and kept.
DropForeignBuf_keep(m, str) == [m |-> m, str |-> str]

\* string.c:52-54 and 76-78.
DropForeignBuf(m, str) ==
    IF str.our_buf = 0 THEN avro_raw_string_free_buf(m, str)
    ELSE [m |-> m, str |-> str]

ClearSize(r) == [m |-> r.m, str |-> [r.str EXCEPT !.size = 0]]

avro_raw_string_clear(m, str) == ClearSize(DropForeignBuf(m, str))

avro_raw_string_done(m, str) ==
    [m |-> avro_raw_string_free_buf(m, str).m, str |-> avro_raw_string_init]

\* string.c:81-83.
EnsureNew(str, length, a) ==
    [m |-> a.m,
     str |-> [str EXCEPT !.buf = a.ptr, !.allocated_size = length,
                         !.free = "avro_alloc_free"]]

\* avro_realloc: a block of nsize bytes that starts with the old contents.
ReallocAt(m, ptr, nsize, p) ==
    [m |-> [m EXCEPT !.bufs = HeapPut(HeapDel(@, ptr), p,
                [i \in 1..nsize |->
                    IF i <= Len(m.bufs[ptr]) THEN m.bufs[ptr][i] ELSE Uninit])],
     ptr |-> p]

avro_realloc(m, ptr, osize, nsize) ==
    ReallocAt(m, ptr, nsize, NewAddr(HeapDel(m.bufs, ptr)))

\* string.c:87-89.
EnsureGrown(str, new_size, a) ==
    [m |-> a.m, str |-> [str EXCEPT !.buf = a.ptr, !.allocated_size = new_size]]

\* string.c:80-90.
EnsureSized(r, length) ==
    IF r.str.allocated_size = 0
    THEN EnsureNew(r.str, length, avro_malloc(r.m, length))
    ELSE IF length > r.str.allocated_size
         THEN EnsureGrown(r.str, r.str.allocated_size * 2,
                  avro_realloc(r.m, r.str.buf, r.str.allocated_size,
                               r.str.allocated_size * 2))
         ELSE r

avro_raw_string_ensure_buf(m, str, length) ==
    EnsureSized(DropForeignBuf(m, str), length)

\* The terminator is counted in the size.
SetLengthCopy_counted(r, src, length) ==
    [m |-> MemWrite(MemWrite(r.m, r.str.buf, 0, MemRead(r.m, src, length)),
                    r.str.buf, length, <<0>>),
     str |-> [r.str EXCEPT !.size = length + 1]]

\* string.c:99-101.
SetLengthCopy(r, src, length) ==
    [m |-> MemWrite(MemWrite(r.m, r.str.buf, 0, MemRead(r.m, src, length)),
                    r.str.buf, length, <<0>>),
     str |-> [r.str EXCEPT !.size = length]]

avro_raw_string_set_length(m, str, src, length) ==
    SetLengthCopy(avro_raw_string_ensure_buf(m, str, length + 1), src, length)

\* The length of the C string at src: the bytes before the first 0.
strlen(m, src) ==
    IF \E i \in 1..Len(m.bufs[src]) : m.bufs[src][i] = 0
    THEN (CHOOSE i \in 1..Len(m.bufs[src]) :
              m.bufs[src][i] = 0 /\ \A j \in 1..(i - 1) : m.bufs[src][j] # 0) - 1
    ELSE Len(m.bufs[src])

\* string.c:109-110.
SetCopy(r, src, length) ==
    [m |-> MemWrite(r.m, r.str.buf, 0, MemRead(r.m, src, length + 1)),
     str |-> [r.str EXCEPT !.size = length + 1]]

avro_raw_string_set(m, str, src) ==
    SetCopy(avro_raw_string_ensure_buf(m, str, strlen(m, src) + 1),
            src, strlen(m, src))

\* string.c:119-124.
Given(r, src, length, free) ==
    [m |-> r.m,
     str |-> [r.str EXCEPT !.buf = src, !.allocated_size = length,
                           !.size = length, !.free = free, !.our_buf = 0]]

avro_raw_string_give_length(m, str, src, length, free) ==
    Given(avro_raw_string_free_buf(m, str), src, length, free)

avro_raw_string_give(m, str, src, free) ==
    avro_raw_string_give_length(m, str, src, strlen(m, src) + 1, free)

avro_raw_string_length(str) == str.size

avro_raw_string_get(str) == str.buf

\* A pointer to a value: the address of the variable and what it holds.
Ptr(addr, val) == [addr |-> addr, val |-> val]

avro_raw_string_equals(m, str1, str2) ==
    IF str1.addr = str2.addr THEN TRUE
    ELSE IF str1.addr = NULL \/ str2.addr = NULL THEN FALSE
    ELSE IF str1.val.str.size # str2.val.str.size THEN FALSE
    ELSE MemRead(m, str1.val.str.buf, str1.val.str.size)
             = MemRead(m, str2.val.str.buf, str1.val.str.size)

(***************************************************************************)
(* Raw values.  A number is a record, so that a floating-point NaN can be  *)
(* told from the numbers; a value slot holds a number and a string.        *)
(***************************************************************************)
F(n) == [nan |-> FALSE, num |-> n]

NaN == [nan |-> TRUE, num |-> 0]

IsBuffer(X) == X \in {"bytes", "string"}

Value(scalar, str) == [scalar |-> scalar, str |-> str]

\* *val1 == *val2 in C: false as soon as one side is a NaN.
CEquals(a, b) == ~a.nan /\ ~b.nan /\ a.num = b.num

\* avro_raw_X_equals (raw_compare.c).
avro_raw_equals(X, m, val1, val2) ==
    IF X = "null" THEN (val1.addr = NULL) = (val2.addr = NULL)
    ELSE IF IsBuffer(X) THEN avro_raw_string_equals(m, val1, val2)
    ELSE IF val1.addr = val2.addr THEN TRUE
    ELSE IF val1.addr = NULL \/ val2.addr = NULL THEN FALSE
    ELSE CEquals(val1.val.scalar, val2.val.scalar)

\* avro_free(value, ...) and the return of the bytes and string callbacks.
ValueCopied(r, dest, value, sz) ==
    [m |-> avro_alloc_free(r.m, value, sz),
     dest |-> [dest EXCEPT !.str = r.str], rc |-> 0]

\* The callback returns without storing the value.
avro_raw_value_nostore(X, m, resolver, value, value_len, dest) ==
    [m |-> m, dest |-> dest, rc |-> 0]

\* The store of avro_raw_X_value into *dest (raw_resolvers.c:92-93 and
\* 136-138).
StoreValue(X, m, value, value_len, dest) ==
    IF IsBuffer(X)
    THEN ValueCopied(avro_raw_string_set_length(m, dest.str, value.ptr, value_len),
                     dest, value.ptr,
                     IF X = "bytes" THEN value_len + 1 ELSE value_len)
    ELSE [m |-> m, dest |-> [dest EXCEPT !.scalar = value.scalar], rc |-> 0]

\* The branch of the reader union a selector narrows to.
SelectedBranch == 1

\* A branch selector as the caller provides it (avro/specific.h:102-103):
\* it sets the discriminant of the union user_data points to and returns
\* the storage of the branch.
branch_selector(unionp) ==
    [unionp |-> [unionp EXCEPT !.discriminant = SelectedBranch],
     state |-> unionp.branch]

\* What the union holds after the store r into the state sel narrowed to.
Narrowed(sel, r) ==
    [m |-> r.m, dest |-> [sel.unionp EXCEPT !.branch = r.dest], rc |-> r.rc]

\* avro_raw_X_value: the callback of the resolver for raw type X.  The
\* null callback (raw_resolvers.c:342-348) uses neither of its arguments;
\* the seven others call a non-null branch_selector on user_data and store
\* into what it returns (e.g. raw_resolvers.c:295-307).
avro_raw_value(X, m, resolver, value, value_len, dest) ==
    IF X = "null" THEN [m |-> m, dest |-> dest, rc |-> 0]
    ELSE IF resolver.branch_selector
         THEN Narrowed(branch_selector(dest),
                  StoreValue(X, MLog(m, "select", NULL), value, value_len,
                             dest.branch))
         ELSE StoreValue(X, m, value, value_len, dest)

\* raw_consume.c:48-49 and 110: fill the copy.
CopyBytes(X, m, bytes_copy, buf, len) ==
    MemWrite(IF X = "bytes" THEN MemWrite(m, bytes_copy, len, <<0>>) ELSE m,
             bytes_copy, 0, MemRead(m, buf, len))

\* raw_consume.c:40-49 and 102-110: the arguments of the callback.
BytesCopy(X, a, value) ==
    [m |-> CopyBytes(X, a.m, a.ptr, value.str.buf, value.str.size),
     value |-> [scalar |-> value.scalar, ptr |-> a.ptr],
     len |-> value.str.size]

\* avro_consumer_call(consumer, X_value, ...)
ConsumerCall(X, a, resolver, ud) ==
    avro_raw_value(X, a.m, resolver, a.value, a.len, ud)

\* avro_raw_X_consume (raw_consume.c).
avro_raw_consume(X, m, value, resolver, ud) ==
    ConsumerCall(X,
        IF IsBuffer(X)
        THEN BytesCopy(X, avro_malloc(m, IF X = "bytes" THEN value.str.size + 1
                                         ELSE value.str.size), value)
        ELSE [m |-> m, value |-> [scalar |-> value.scalar, ptr |-> NULL], len |-> 0],
        resolver, ud)

EINVAL == 22

ENOMEM == 12

\* What *branch_consumer and *branch_user_data hold when nothing was stored.
Unset == 0 - 1

\* raw_resolvers.c:440-448, with the child read from the array.
UnionBranchOf(c, child, user_data) ==
    IF child = NULL
    THEN [c |-> avro_set_error(c, "Writer union branch is incompatible with reader schema"),
          rc |-> EINVAL, branch_consumer |-> Unset, branch_user_data |-> Unset]
    ELSE [c |-> c, rc |-> 0, branch_consumer |-> child,
          branch_user_data |-> user_data]

\* What a read behind the end of the child array may find: a null pointer
\* or some other value.
Wild == Unset - 1

BeyondValues == {NULL, Wild}

\* raw_resolvers.c:439: consumer->child_consumers[discriminant], read
\* without a test of the discriminant; beyond is what the read finds when
\* the discriminant is not an index of the array.
ChildRead(c, children, consumer, discriminant, beyond) ==
    IF discriminant < Len(children)
    THEN [c |-> c, child |-> children[discriminant + 1]]
    ELSE [c |-> Log(c, "out_of_bounds", consumer, NoSchema), child |-> beyond]

UnionBranchRead(r, user_data) == UnionBranchOf(r.c, r.child, user_data)

avro_specific_writer_union_branch(c, consumer, discriminant, user_data, beyond) ==
    UnionBranchRead(
        ChildRead(Touch(c, consumer), Deref(c, consumer).child_consumers,
                  consumer, discriminant, beyond),
        user_data)

(***************************************************************************)
(* The values the callers pass.                                            *)
(***************************************************************************)
ByteSeqs == UNION {[1..n -> Bytes] : n \in 0..MaxStrLen}

RawValues(X) ==
    CASE X = "boolean" -> {F(0), F(1)}
      [] X = "null" -> {F(0)}
      [] X \in {"double", "float"} -> {F(0), F(1), NaN}
      [] X \in {"int", "long"} -> {F(0 - 1), F(0), F(7)}
      [] OTHER -> {v \in [mode : {"set_length", "set"}, content : ByteSeqs] :
                      v.mode = "set" => \A i \in DOMAIN v.content : v.content[i] # 0}

\* What the destination holds before anything is stored into it.
InitVal == F(3)

NoSlot == [X |-> "none", consumer |-> NULL, dest |-> Value(InitVal, avro_raw_string_init)]

\* A C string literal with the given content.
WriteLiteral(a, content) ==
    [m |-> MemWrite(a.m, a.ptr, 0, Append(content, 0)), ptr |-> a.ptr]

MakeLiteral(m, content) == WriteLiteral(avro_malloc(m, Len(content) + 1), content)

SourceOf(lit, r) == [m |-> r.m, value |-> Value(F(0), r.str), lit |-> lit]

\* test_specific.c:135-141: the caller fills an avro_raw_string_t.
MakeFrom(v, lit) ==
    SourceOf(lit.ptr,
        IF v.mode = "set"
        THEN avro_raw_string_set(lit.m, avro_raw_string_init, lit.ptr)
        ELSE avro_raw_string_set_length(lit.m, avro_raw_string_init, lit.ptr,
                                        Len(v.content)))

MakeValue(m, v) == MakeFrom(v, MakeLiteral(m, v.content))

Source(X, v) ==
    IF IsBuffer(X) THEN MakeValue(Mem(bufs), v)
    ELSE [m |-> Mem(bufs), value |-> Value(v, avro_raw_string_init), lit |-> NULL]

Discard(b, ps) == [p \in DOMAIN b \ ps |-> b[p]]

(***************************************************************************)
(* The life of one raw resolver: avro_raw_X_resolver_new, then values      *)
(* consumed into the destination and union branches selected, then         *)
(* avro_consumer_free.                                                     *)
(***************************************************************************)
IdleMap == map = NULL /\ keybuf = NULL

InitResolver ==
    /\ heap = EmptyFun /\ mem = EmptyFun /\ refs = EmptyFun /\ err = ""
    /\ slot = NoSlot /\ bufs = EmptyFun
    /\ last = [op |-> "init"]

Init == InitResolver /\ IdleMap

ResolverNewDone(X, wschema, c) ==
    /\ heap' = c.heap /\ refs' = c.refs /\ err' = c.err
    /\ slot' = [NoSlot EXCEPT !.X = X, !.consumer = c.result]
    /\ last' = [op |-> "resolver_new", X |-> X, wschema |-> wschema,
                result |-> c.result, log |-> c.log, cache |-> c.mem]
    /\ UNCHANGED <<mem, map, keybuf, bufs>>

ResolverNew(X, wschema, z) ==
    /\ last.op = "init"
    /\ ResolverNewDone(X, wschema,
           avro_raw_resolver_new(X, wschema,
               [Ctx(heap, mem, refs, err) EXCEPT !.calloc0_null = z]))

ConsumeDone(consumer, X, v, src, r) ==
    /\ slot' = [slot EXCEPT !.dest = r.dest]
    /\ bufs' = Discard(r.m.bufs, {src.lit, src.value.str.buf})
    /\ last' = [op |-> "consume", X |-> X, consumer |-> consumer, value |-> v,
                rc |-> r.rc, log |-> r.m.log,
                equals |-> avro_raw_equals(X, r.m, Ptr(1, r.dest), Ptr(2, src.value))]
    /\ UNCHANGED <<heap, mem, refs, err, map, keybuf>>

ConsumeFrom(consumer, X, v, src) ==
    ConsumeDone(consumer, X, v, src,
        avro_raw_consume(X, Mem(src.m.bufs), src.value, heap[consumer], slot.dest))

Consume(consumer, X, v) ==
    /\ slot.X = X
    /\ heap[consumer].value_cb = X
    /\ ConsumeFrom(consumer, X, v, Source(X, v))

UnionBranchDone(consumer, discriminant, user_data, r) ==
    /\ err' = r.c.err
    /\ last' = [op |-> "union_branch", consumer |-> consumer,
                discriminant |-> discriminant, user_data |-> user_data,
                rc |-> r.rc, branch_consumer |-> r.branch_consumer,
                branch_user_data |-> r.branch_user_data, log |-> r.c.log]
    /\ UNCHANGED <<heap, mem, refs, slot, map, keybuf, bufs>>

UnionBranch(consumer, discriminant, user_data) ==
    /\ heap[consumer].union_branch
    /\ discriminant < Len(heap[consumer].child_consumers)
    /\ UnionBranchDone(consumer, discriminant, user_data,
           avro_specific_writer_union_branch(Ctx(heap, mem, refs, err),
               consumer, discriminant, user_data, NULL))

ConsumerFreeDone(consumer, c) ==
    /\ heap' = c.heap /\ refs' = c.refs
    /\ slot' = NoSlot
    /\ bufs' = avro_raw_string_done(Mem(bufs), slot.dest.str).m.bufs
    /\ last' = [op |-> "consumer_free", consumer |-> consumer, before |-> heap,
                log |-> c.log]
    /\ UNCHANGED <<mem, err, map, keybuf>>

ConsumerFree ==
    /\ slot.consumer # NULL
    /\ ConsumerFreeDone(slot.consumer,
           avro_consumer_free(slot.consumer, Ctx(heap, mem, refs, err)))

Next ==
    \/ \E X \in RawTypes, wschema \in WriterSchemas :
           \E z \in (IF wschema = Union(<<>>) THEN BOOLEAN ELSE {FALSE}) :
               ResolverNew(X, wschema, z)
    \/ \E consumer \in DOMAIN heap, X \in RawTypes : \E v \in RawValues(X) :
           Consume(consumer, X, v)
    \/ \E consumer \in DOMAIN heap, discriminant \in 0..(MaxBranches - 1),
          user_data \in {1, 2} :
           UnionBranch(consumer, discriminant, user_data)
    \/ ConsumerFree

Spec == Init /\ [][Next]_vars

(***************************************************************************)
(* Properties of the raw resolvers.                                        *)
(***************************************************************************)
\* The primitive pairing table of the specification: the raw targets that
\* accept a writer of kind w.
Acceptable(w, X) ==
    \/ w = X /\ w \in RawTypes
    \/ w = "int" /\ X \in {"long", "float", "double"}
    \/ w = "long" /\ X \in {"float", "double"}
    \/ w = "float" /\ X = "double"
    \/ w = "bytes" /\ X = "string"
    \/ w = "string" /\ X = "bytes"

Count(log, e) == Cardinality({i \in DOMAIN log : log[i].ev = e})

CountAt(log, e, id) ==
    Cardinality({i \in DOMAIN log : log[i].ev = e /\ log[i].id = id})

\* The last call consumed a value into the resolver that
\* avro_raw_X_resolver_new returned for the X writer schema.
C1_Case ==
    /\ last.op = "consume"
    /\ last.consumer = slot.consumer
    /\ heap[last.consumer].schema = Prim(last.X)

C1_IsNaN == last.X \in {"double", "float"} /\ last.value.nan

C2_PromotionsAccepted ==
    (/\ last.op = "resolver_new"
     /\ last.wschema.type # last.X
     /\ Acceptable(last.wschema.type, last.X)) => last.result # NULL

CompatibleBranches(wschema, X) ==
    {i \in 0..(avro_schema_union_size(wschema) - 1) :
        Acceptable(wschema.branches[i + 1], X)}

\* C3: for a writer union with at least one branch the pairing table
\* accepts for the target, the resolver is built, and union_branch gives,
\* for every compatible branch i, the child built for branch i and the
\* unchanged state; selecting an incompatible branch gives EINVAL.
C3_UnionDispatch ==
    /\ (/\ last.op = "resolver_new" /\ is_avro_union(last.wschema)
        /\ CompatibleBranches(last.wschema, last.X) # {})
          => /\ last.result # NULL
             /\ heap[last.result].union_branch
             /\ \A i \in CompatibleBranches(last.wschema, last.X) :
                    /\ heap[last.result].child_consumers[i + 1] \in DOMAIN heap
                    /\ heap[heap[last.result].child_consumers[i + 1]].schema
                           = avro_schema_union_branch(last.wschema, i)
    /\ last.op = "union_branch"
          => IF last.discriminant
                    \in CompatibleBranches(heap[last.consumer].schema, slot.X)
             THEN /\ last.rc = 0
                  /\ last.branch_consumer
                         = heap[last.consumer].child_consumers[last.discriminant + 1]
                  /\ heap[last.branch_consumer].value_cb = slot.X
                  /\ last.branch_user_data = last.user_data
             ELSE last.rc = EINVAL

ExactBranches(wschema, X) ==
    {i \in 0..(avro_schema_union_size(wschema) - 1) : wschema.branches[i + 1] = X}

\* What the code does give for unions: the same as C3 with "compatible"
\* read as "of the kind of the target".
UnionDispatchExactKind ==
    /\ (/\ last.op = "resolver_new" /\ is_avro_union(last.wschema)
        /\ ExactBranches(last.wschema, last.X) # {})
          => /\ last.result # NULL
             /\ heap[last.result].union_branch
             /\ \A i \in ExactBranches(last.wschema, last.X) :
                    /\ heap[last.result].child_consumers[i + 1] \in DOMAIN heap
                    /\ heap[heap[last.result].child_consumers[i + 1]].schema
                           = avro_schema_union_branch(last.wschema, i)
    /\ last.op = "union_branch"
          => IF last.discriminant
                    \in ExactBranches(heap[last.consumer].schema, slot.X)
             THEN /\ last.rc = 0
                  /\ last.branch_consumer
                         = heap[last.consumer].child_consumers[last.discriminant + 1]
                  /\ heap[last.branch_consumer].value_cb = slot.X
                  /\ last.branch_user_data = last.user_data
             ELSE last.rc = EINVAL /\ err # ""

C4_Case ==
    /\ last.op = "resolver_new" /\ is_avro_union(last.wschema)
    /\ CompatibleBranches(last.wschema, last.X) = {}

\* C4: resolving a writer union with no compatible branch returns NULL with
\* an error set; the union resolver allocated on the way is freed exactly
\* once, nothing stays allocated, and the reference taken on the writer
\* schema is dropped.
C4_AllIncompatible ==
    C4_Case =>
        /\ last.result = NULL /\ err # ""
        /\ heap = EmptyFun /\ refs = EmptyFun
        /\ Count(last.log, "alloc") = 1
        /\ \A i \in DOMAIN last.log :
               last.log[i].ev = "alloc"
                   => CountAt(last.log, "free", last.log[i].id) = 1
        /\ Count(last.log, "double_free") = 0
        /\ Count(last.log, "use_after_free") = 0
        /\ Count(last.log, "incref") = 1 /\ Count(last.log, "decref") = 1
        /\ \A i \in DOMAIN last.log :
               last.log[i].ev \in {"incref", "decref"}
                   => last.log[i].schema = last.wschema

C4_Witness ==
    /\ C4_Case /\ avro_schema_union_size(last.wschema) = MaxBranches
    /\ last.result = NULL /\ Count(last.log, "free") = 1

C5_Case ==
    /\ last.op = "resolver_new" /\ ~is_avro_union(last.wschema)
    /\ ~Acceptable(last.wschema.type, last.X)

\* C5: for a non-union writer whose kind the pairing table does not accept
\* for raw type X, avro_raw_X_resolver_new returns NULL with an error set,
\* no resolver allocated in the call is left, and the cache has no entry
\* for (X, W).
C5_Incompatible ==
    C5_Case =>
        /\ last.result = NULL /\ err # ""
        /\ heap = EmptyFun /\ refs = EmptyFun
        /\ Count(last.log, "alloc") = Count(last.log, "free")
        /\ ~avro_memoize_get(last.cache, last.X, last.wschema)

C5_Witness ==
    /\ C5_Case /\ last.X = "int" /\ last.wschema = Prim("boolean")
    /\ last.result = NULL /\ err # ""

(***************************************************************************)
(* avro_consumer_free on consumer graphs of any shape: every consumer has  *)
(* a free callback and holds a reference on its schema; a consumer has no  *)
(* child array, or an array of some of the consumers, in which cycles and  *)
(* shared children occur, with or without a NULL entry in front.  The     *)
(* root is consumer 1.                                                     *)
(***************************************************************************)
Consumers == 1..NumConsumers

SortedSeq(S) ==
    CHOOSE f \in [1..Cardinality(S) -> S] :
        \A i, j \in 1..Cardinality(S) : i < j => f[i] < f[j]

GraphConsumer(has_children, children) ==
    [ZeroedResolver EXCEPT !.free = TRUE, !.schema = Prim("record"),
                           !.has_children = has_children,
                           !.child_consumers = children]

ConsumerShapes(null_entry) ==
    {GraphConsumer(FALSE, <<>>)} \cup
    {GraphConsumer(TRUE, (IF null_entry THEN <<NULL>> ELSE <<>>) \o SortedSeq(S)) :
        S \in SUBSET Consumers}

InitFree ==
    /\ \E null_entry \in BOOLEAN : heap \in [Consumers -> ConsumerShapes(null_entry)]
    /\ refs = [s \in {Prim("record")} |-> NumConsumers]
    /\ slot = [NoSlot EXCEPT !.consumer = 1]
    /\ mem = EmptyFun /\ err = "" /\ bufs = EmptyFun
    /\ last = [op |-> "init"]
    /\ IdleMap

NextFree == ConsumerFree

SpecFree == InitFree /\ [][NextFree]_vars

Children(h, p) ==
    IF h[p].has_children
    THEN {h[p].child_consumers[i] : i \in DOMAIN h[p].child_consumers} \ {NULL}
    ELSE {}

RECURSIVE ReachFrom(_, _)
ReachFrom(h, S) ==
    IF UNION {Children(h, p) : p \in S} \subseteq S THEN S
    ELSE ReachFrom(h, S \cup UNION {Children(h, p) : p \in S})

\* The consumers reachable from root in the graph h.
Reach(h, root) == ReachFrom(h, {root})

\* The log has no access to p after the free callback of p has run.
NoAccessAfterFree(log, p) ==
    \A i \in DOMAIN log :
        (log[i].ev = "free" /\ log[i].id = p)
            => \A j \in (i + 1)..Len(log) : log[j].id # p

FreedOnce(log, before, p) ==
    /\ CountAt(log, "free", p) = 1
    /\ CountAt(log, "visit", p) = 1
    /\ CountAt(log, "free_children", p) = (IF before[p].has_children THEN 1 ELSE 0)
    /\ NoAccessAfterFree(log, p)

FreedExactly(R) ==
    /\ \A p \in R : p \notin DOMAIN heap /\ FreedOnce(last.log, last.before, p)
    /\ \A p \in DOMAIN last.before \ R :
           /\ p \in DOMAIN heap /\ heap[p] = last.before[p]
           /\ CountAt(last.log, "free", p) = 0
    /\ Count(last.log, "decref") = Cardinality(R)

\* C6: avro_consumer_free on any consumer graph, with cycles and shared
\* children, returns, and for every consumer reachable from the root the
\* free callback has run exactly once, its child array has been freed
\* exactly once, its schema reference has been dropped, and it was not
\* read after its free callback ran; the other consumers are untouched.
C6_FreeOnce ==
    last.op = "consumer_free" =>
        /\ FreedExactly(Reach(last.before, last.consumer))
        /\ Count(last.log, "double_free") = 0
        /\ Count(last.log, "use_after_free") = 0

\* A cycle through the root and a child shared by two parents.
C6_Witness ==
    /\ last.op = "consumer_free"
    /\ Cardinality(Reach(last.before, last.consumer)) = NumConsumers
    /\ last.consumer \in Children(last.before, last.consumer)
    /\ \E p, q \in Consumers :
           /\ p # q
           /\ Children(last.before, p) \cap Children(last.before, q) # {}
           /\ last.consumer \in Children(last.before, p)
    /\ heap = EmptyFun

(***************************************************************************)
(* One avro_memoize_t kept over several calls of                           *)
(* avro_raw_X_resolver_memoized, for a writer schema and its branches.     *)
(* slot.calls remembers what each call returned.                           *)
(***************************************************************************)
SessionSchemas(wschema) ==
    {wschema} \cup
    {avro_schema_union_branch(wschema, i) :
        i \in 0..(avro_schema_union_size(wschema) - 1)}

InitMemo ==
    /\ heap = EmptyFun /\ mem = EmptyFun /\ refs = EmptyFun /\ err = ""
    /\ bufs = EmptyFun
    /\ slot \in [X : RawTypes, wschema : WriterSchemas, calls : {EmptyFun}]
    /\ last = [op |-> "init"]
    /\ IdleMap

MemoizedDone(wschema, c) ==
    /\ heap' = c.heap /\ mem' = c.mem /\ refs' = c.refs /\ err' = c.err
    /\ slot' = [slot EXCEPT !.calls =
                   [w \in DOMAIN @ \cup {wschema} |->
                       IF w = wschema THEN c.result ELSE @[w]]]
    /\ last' = [op |-> "memoized", wschema |-> wschema, result |-> c.result,
                log |-> c.log, again |-> wschema \in DOMAIN slot.calls,
                prev |-> IF wschema \in DOMAIN slot.calls THEN slot.calls[wschema]
                         ELSE NULL,
                mem_before |-> mem, heap_before |-> heap, refs_before |-> refs]
    /\ UNCHANGED <<map, keybuf, bufs>>

Memoized(wschema) ==
    MemoizedDone(wschema,
        avro_raw_resolver_memoized(slot.X, wschema, Ctx(heap, mem, refs, err)))

NextMemo == \E wschema \in SessionSchemas(slot.wschema) : Memoized(wschema)

SpecMemo == InitMemo /\ [][NextMemo]_vars

\* C7: a second call of avro_raw_X_resolver_memoized with the same cache and
\* the same writer schema returns what the first call returned and leaves
\* the cache, the resolvers and the schema references as they were; when
\* the first call returned a resolver, the second allocates nothing.
C7_MemoizedIdempotent ==
    (last.op = "memoized" /\ last.again) =>
        /\ last.result = last.prev
        /\ mem = last.mem_before
        /\ heap = last.heap_before
        /\ refs = last.refs_before
        /\ last.prev # NULL => Count(last.log, "alloc") = 0

C7_Witness ==
    /\ last.op = "memoized" /\ last.again
    /\ is_avro_union(last.wschema)
    /\ last.result # NULL /\ last.result = last.prev
    /\ last.result \in DOMAIN heap
    /\ Cardinality(DOMAIN mem) > 1

(***************************************************************************)
(* The packed array (avro/data.h; array.c is not part of the sources at    *)
(* hand).  allocated_size counts elements; the capacity doubles, starting  *)
(* from 1.  alloc is what the allocator does when the array has to grow:   *)
(* "fail", "move" (the block is somewhere else afterwards) or "same".      *)
(***************************************************************************)
DataAddrs == {64, 128}

AllocOutcomes == {"fail", "move", "same"}

\* What the allocator may do in a call that needs desired_count elements:
\* it is asked only when the array has to grow.
AllocFor(array, desired_count) ==
    IF array.allocated_size >= desired_count THEN {"same"} ELSE AllocOutcomes

avro_raw_array_init(element_size) ==
    [element_size |-> element_size, element_count |-> 0,
     allocated_size |-> 0, data |-> NULL]

avro_raw_array_clear(array) == [array EXCEPT !.element_count = 0]

RECURSIVE GrownSize(_, _)
GrownSize(allocated_size, desired_count) ==
    IF allocated_size >= desired_count THEN allocated_size
    ELSE GrownSize(IF allocated_size = 0 THEN 1 ELSE allocated_size * 2,
                   desired_count)

Realloc(data, alloc) ==
    IF data = NULL \/ alloc = "move" THEN CHOOSE a \in DataAddrs : a # data
    ELSE data

avro_raw_array_ensure_size(array, desired_count, alloc) ==
    IF array.allocated_size >= desired_count THEN [array |-> array, rc |-> 0]
    ELSE IF alloc = "fail" THEN [array |-> array, rc |-> ENOMEM]
    ELSE [array |-> [array EXCEPT
                        !.allocated_size = GrownSize(@, desired_count),
                        !.data = Realloc(@, alloc)],
          rc |-> 0]

Appended(r) ==
    IF r.rc # 0 THEN [array |-> r.array, el |-> NULL]
    ELSE [array |-> [r.array EXCEPT !.element_count = @ + 1],
          el |-> r.array.data + r.array.element_size * r.array.element_count]

avro_raw_array_append(array, alloc) ==
    Appended(avro_raw_array_ensure_size(array, array.element_count + 1, alloc))

\* The place of the element the macro reads (avro/data.h:91-92), for an
\* element_type of the array's element size.
avro_raw_array_get(array, index) == array.data + array.element_size * index

(***************************************************************************)
(* The string table of st.h (not part of the sources at hand), as map.c    *)
(* and schema_specific.c use it: the table keeps the key pointer it is     *)
(* given and the hash of the string it pointed to when it was inserted.    *)
(* kb is the memory the key pointers point into.                           *)
(***************************************************************************)
st_init_strtable == <<>>

KeyMatches(e, kb, key) ==
    e.hash = kb[key] /\ (e.key = key \/ kb[e.key] = kb[key])

FirstMatch(table, kb, key) ==
    CHOOSE i \in DOMAIN table :
        /\ KeyMatches(table[i], kb, key)
        /\ \A j \in 1..(i - 1) : ~KeyMatches(table[j], kb, key)

st_lookup(table, kb, key) ==
    IF \E i \in DOMAIN table : KeyMatches(table[i], kb, key)
    THEN [found |-> TRUE, data |-> table[FirstMatch(table, kb, key)].record]
    ELSE [found |-> FALSE, data |-> 0]

st_insert(table, kb, key, value) ==
    IF \E i \in DOMAIN table : KeyMatches(table[i], kb, key)
    THEN [table EXCEPT ![FirstMatch(table, kb, key)].record = value]
    ELSE <<[key |-> key, hash |-> kb[key], record |-> value]>> \o table

(***************************************************************************)
(* avro_raw_map_t (map.c).                                                 *)
(***************************************************************************)
avro_raw_map_init(element_size) ==
    [elements |-> avro_raw_array_init(element_size),
     indices_by_key |-> st_init_strtable]

\* The table is kept as it is.
avro_raw_map_clear_keeptable(m) ==
    [m EXCEPT !.elements = avro_raw_array_clear(m.elements)]

avro_raw_map_clear(m) ==
    [elements |-> avro_raw_array_clear(m.elements),
     indices_by_key |-> st_init_strtable]

MapResized(m, r) == [map |-> [m EXCEPT !.elements = r.array], rc |-> r.rc]

avro_raw_map_ensure_size(m, desired_count, alloc) ==
    MapResized(m, avro_raw_array_ensure_size(m.elements, desired_count, alloc))

\* map.c:62-70.
GetFound(m, l) ==
    IF l.found
    THEN [element |-> m.elements.data + m.elements.element_size * l.data,
          index |-> l.data]
    ELSE [element |-> NULL, index |-> Unset]

avro_raw_map_get(m, kb, key) == GetFound(m, st_lookup(m.indices_by_key, kb, key))

avro_raw_map_get_by_index(m, index) == avro_raw_array_get(m.elements, index)

\* map.c:87-93 and 96-102: the key is not in the table.
GetOrCreateNew(m, kb, key, i, a) ==
    [map |-> [elements |-> a.array,
              indices_by_key |-> st_insert(m.indices_by_key, kb, key, i)],
     rc |-> IF a.el = NULL THEN 0 - ENOMEM ELSE 1,
     element |-> IF a.el = NULL THEN Unset ELSE a.el,
     index |-> IF a.el = NULL THEN Unset ELSE i]

\* map.c:82-85 and 96-102: the key is in the table.
GetOrCreateOld(m, l) ==
    [map |-> m, rc |-> 0,
     element |-> m.elements.data + m.elements.element_size * l.data,
     index |-> l.data]

GetOrCreateLooked(m, kb, key, alloc, l) ==
    IF l.found THEN GetOrCreateOld(m, l)
    ELSE GetOrCreateNew(m, kb, key, m.elements.element_count,
                        avro_raw_array_append(m.elements, alloc))

avro_raw_map_get_or_create(m, kb, key, alloc) ==
    GetOrCreateLooked(m, kb, key, alloc, st_lookup(m.indices_by_key, kb, key))

(***************************************************************************)
(* A caller of the containers (tests/test_data_structures.c): it works on  *)
(* a raw array of its own or on a raw map, whose keys it passes in buffers *)
(* that it may write to again.  slot holds the array and what the caller   *)
(* remembers of its calls:                                                 *)
(*   appends   the appends to the array that gave an element               *)
(*   adds      the get_or_create calls that reported a new element         *)
(*   created   key -> element and index it was created with, for the keys  *)
(*             created since the map last grew or was cleared              *)
(*   inserted  key -> index, for the keys created since the last clear     *)
(*   cleared   the keys created before the last clear and not asked for    *)
(*             with get_or_create since                                    *)
(***************************************************************************)
\* The caller's two key buffers, and the keys it writes into them.
KeyBufs == {1, 2}

KeyContents == {"x", "y"}

NoCalls ==
    [array |-> avro_raw_array_init(8), appends |-> 0, adds |-> 0,
     created |-> EmptyFun, inserted |-> EmptyFun, cleared |-> {}]

InitMap ==
    /\ map = avro_raw_map_init(8)
    /\ keybuf = [b \in KeyBufs |-> "x"]
    /\ slot = NoCalls
    /\ last = [op |-> "init"]
    /\ heap = EmptyFun /\ mem = EmptyFun /\ refs = EmptyFun /\ err = ""
    /\ bufs = EmptyFun

MapUntouched ==
    /\ map = avro_raw_map_init(8)
    /\ keybuf = [b \in KeyBufs |-> "x"]
    /\ slot = [NoCalls EXCEPT !.array = slot.array, !.appends = slot.appends]

ArrayUntouched == slot.array = avro_raw_array_init(8)

Grew(old, new) ==
    old.elements.data # new.elements.data
        \/ old.elements.allocated_size # new.elements.allocated_size

Remembered(key, r) == [element |-> r.element, index |-> r.index, buf |-> key]

NotRemembered == [element |-> NULL, index |-> Unset, buf |-> NULL]

\* The buffer a remembered key was passed in has not been written to since.
Intact(calls, k) == calls[k].buf # NULL

Written(calls, key) ==
    [k \in DOMAIN calls |->
        IF calls[k].buf = key THEN [calls[k] EXCEPT !.buf = NULL] ELSE calls[k]]

\* What the caller remembers after get_or_create returned r for the key k.
AfterGetOrCreate(key, k, r) ==
    [slot EXCEPT
        !.adds = IF r.rc = 1 THEN @ + 1 ELSE @,
        !.created = IF r.rc = 1
                    THEN HeapPut(IF Grew(map, r.map) THEN EmptyFun ELSE @,
                                 k, Remembered(key, r))
                    ELSE IF Grew(map, r.map) THEN EmptyFun ELSE @,
        !.inserted = IF r.rc = 1 /\ k \notin DOMAIN @ THEN HeapPut(@, k, Remembered(key, r))
                     ELSE @,
        !.cleared = @ \ {k}]

GetOrCreateDone(key, r) ==
    /\ r.map.elements.element_count <= MaxElements
    /\ Len(r.map.indices_by_key) <= MaxElements
    /\ map' = r.map
    /\ slot' = AfterGetOrCreate(key, keybuf[key], r)
    /\ last' = [op |-> "get_or_create", key |-> key, content |-> keybuf[key],
                rc |-> r.rc, element |-> r.element, index |-> r.index,
                known |-> keybuf[key] \in DOMAIN slot.created,
                first |-> IF keybuf[key] \in DOMAIN slot.created
                          THEN slot.created[keybuf[key]] ELSE NotRemembered,
                intact |-> keybuf[key] \in DOMAIN slot.created
                               /\ Intact(slot.created, keybuf[key]),
                size_before |-> map.elements.element_count,
                inserted |-> keybuf[key] \in DOMAIN slot.inserted,
                ordinal |-> IF keybuf[key] \in DOMAIN slot.inserted
                            THEN slot.inserted[keybuf[key]].index
                            ELSE Cardinality(DOMAIN slot.inserted),
                all_intact |-> \A k \in DOMAIN slot.inserted :
                                   Intact(slot.inserted, k)]
    /\ UNCHANGED <<heap, mem, refs, err, keybuf, bufs>>

GetOrCreate(key) ==
    /\ ArrayUntouched
    /\ \E alloc \in AllocFor(map.elements, map.elements.element_count + 1) :
           GetOrCreateDone(key,
               avro_raw_map_get_or_create(map, keybuf, key, alloc))

GetDone(key, r) ==
    /\ last' = [op |-> "get", key |-> key, content |-> keybuf[key],
                element |-> r.element, index |-> r.index,
                inserted |-> keybuf[key] \in DOMAIN slot.inserted,
                first |-> IF keybuf[key] \in DOMAIN slot.inserted
                          THEN slot.inserted[keybuf[key]] ELSE NotRemembered,
                intact |-> keybuf[key] \in DOMAIN slot.inserted
                               /\ Intact(slot.inserted, keybuf[key]),
                was_cleared |-> keybuf[key] \in slot.cleared]
    /\ UNCHANGED <<heap, mem, refs, err, slot, map, keybuf, bufs>>

Get(key) ==
    /\ ArrayUntouched
    /\ GetDone(key, avro_raw_map_get(map, keybuf, key))

Clear ==
    /\ ArrayUntouched
    /\ map' = avro_raw_map_clear(map)
    /\ slot' = [slot EXCEPT !.adds = 0, !.created = EmptyFun,
                            !.inserted = EmptyFun,
                            !.cleared = @ \cup DOMAIN slot.inserted]
    /\ last' = [op |-> "clear"]
    /\ UNCHANGED <<heap, mem, refs, err, keybuf, bufs>>

EnsureSizeDone(r) ==
    /\ map' = r.map
    /\ slot' = [slot EXCEPT !.created = IF Grew(map, r.map) THEN EmptyFun ELSE @]
    /\ last' = [op |-> "ensure_size", rc |-> r.rc]
    /\ UNCHANGED <<heap, mem, refs, err, keybuf, bufs>>

EnsureSize(desired_count) ==
    /\ ArrayUntouched
    /\ \E alloc \in AllocFor(map.elements, desired_count) :
           EnsureSizeDone(avro_raw_map_ensure_size(map, desired_count, alloc))

\* The caller writes another key into one of its buffers.
Overwrite(key, content) ==
    /\ ArrayUntouched
    /\ keybuf[key] # content
    /\ keybuf' = [keybuf EXCEPT ![key] = content]
    /\ slot' = [slot EXCEPT !.created = Written(@, key),
                            !.inserted = Written(@, key)]
    /\ last' = [op |-> "overwrite"]
    /\ UNCHANGED <<heap, mem, refs, err, map, bufs>>

ArrayAppendDone(a) ==
    /\ slot' = [slot EXCEPT !.array = a.array,
                            !.appends = IF a.el # NULL THEN @ + 1 ELSE @]
    /\ last' = [op |-> "array_append", el |-> a.el]
    /\ UNCHANGED <<heap, mem, refs, err, map, keybuf, bufs>>

ArrayAppend ==
    /\ MapUntouched
    /\ slot.array.element_count < MaxElements
    /\ \E alloc \in AllocFor(slot.array, slot.array.element_count + 1) :
           ArrayAppendDone(avro_raw_array_append(slot.array, alloc))

ArrayClear ==
    /\ MapUntouched
    /\ slot' = [slot EXCEPT !.array = avro_raw_array_clear(@), !.appends = 0]
    /\ last' = [op |-> "array_clear"]
    /\ UNCHANGED <<heap, mem, refs, err, map, keybuf, bufs>>

NextMap ==
    \/ \E key \in KeyBufs : GetOrCreate(key)
    \/ \E key \in KeyBufs : Get(key)
    \/ Clear
    \/ \E desired_count \in 1..MaxElements : EnsureSize(desired_count)
    \/ \E key \in KeyBufs, content \in KeyContents : Overwrite(key, content)
    \/ ArrayAppend
    \/ ArrayClear

SpecMap == InitMap /\ [][NextMap]_vars

(***************************************************************************)
(* The containers' contract, in SpecMap.                                   *)
(***************************************************************************)
SameAsFirst ==
    /\ last.rc = 0
    /\ last.element = last.first.element
    /\ last.index = last.first.index
    /\ map.elements.element_count = last.size_before

\* C8: a get_or_create call for a key that was created before, with no
\* growth and no clear since, reports "not new" (0), returns the element
\* pointer and the index of the creation, and leaves the size of the map as
\* it was.
C8_GetOrCreateIdempotent ==
    (last.op = "get_or_create" /\ last.known) => SameAsFirst

\* The same holds of the code as long as the buffer the key was created
\* from has not been written to.
GetOrCreateIdempotentIntactKey ==
    (last.op = "get_or_create" /\ last.known /\ last.intact) => SameAsFirst

GetOrCreateIdempotentIntactKey_Witness ==
    /\ last.op = "get_or_create" /\ last.known /\ last.intact
    /\ last.key # last.first.buf

\* C9: the map owns its keys: a lookup with a key equal in content to a key
\* inserted since the last clear finds the element of that insertion,
\* whatever the caller has written since to the buffer it inserted from.
C9_MapOwnsKeys ==
    (last.op = "get" /\ last.inserted) =>
        last.element # NULL /\ last.index = last.first.index

\* The lookup finds the element as long as the buffer of the insertion
\* has not been written to.
LookupFindsIntactKey ==
    (last.op = "get" /\ last.inserted /\ last.intact) =>
        last.element # NULL /\ last.index = last.first.index

LookupFindsIntactKey_Witness ==
    /\ last.op = "get" /\ last.inserted /\ last.intact
    /\ last.key # last.first.buf

\* C10: the size of an array is the number of appends that gave an element
\* since init or the last clear, the size of a map the number of
\* get_or_create calls that reported a new element since init or the last
\* clear; both are 0 after init and after clear; and after a clear of the
\* map, a lookup returns NULL for every key inserted before it (and not
\* asked for with get_or_create since).
C10_SizeAccounting ==
    /\ slot.array.element_count = slot.appends
    /\ map.elements.element_count = slot.adds
    /\ last.op \in {"init", "clear"} => map.elements.element_count = 0
    /\ last.op \in {"init", "array_clear"} => slot.array.element_count = 0
    /\ (last.op = "get" /\ last.was_cleared) => last.element = NULL

C10_Witness ==
    /\ last.op = "get" /\ last.was_cleared /\ last.element = NULL
    /\ slot.adds = 1 /\ map.elements.element_count = 1

C10_ArrayWitness ==
    /\ last.op = "array_append" /\ last.el # NULL
    /\ slot.appends = MaxElements /\ slot.array.element_count = MaxElements

SameAsInserted ==
    /\ last.element # NULL
    /\ last.index = last.first.index
    /\ last.element = avro_raw_map_get_by_index(map, last.index)

\* The call created the key, or found a key created before.
Reported == last.rc = 1 \/ (last.rc = 0 /\ last.inserted)

\* C11: indices follow insertion order: a get_or_create call reports, for
\* the i-th distinct key created since init or the last clear (counting
\* from 0), the index i, a lookup of such a key reports the same index, and
\* avro_raw_map_get_by_index of that index is the element the lookup
\* returns.
C11_InsertionOrder ==
    /\ (last.op = "get_or_create" /\ Reported) => last.index = last.ordinal
    /\ (last.op = "get" /\ last.inserted) => SameAsInserted

\* The same holds of the code as long as no buffer that a key was inserted
\* from has been written to.
InsertionOrderIntactKeys ==
    /\ (last.op = "get_or_create" /\ Reported /\ last.all_intact)
           => last.index = last.ordinal
    /\ (last.op = "get" /\ last.inserted /\ last.intact) => SameAsInserted

InsertionOrderIntactKeys_Witness ==
    /\ last.op = "get" /\ last.inserted /\ last.intact
    /\ last.index = MaxElements - 1
    /\ last.key # last.first.buf

(***************************************************************************)
(* A caller of one avro_raw_string_t.  It sets the string from a source    *)
(* buffer that it frees right after the call, or gives it a buffer: one    *)
(* it allocated, with its release function, or one that nobody has to      *)
(* free, with a NULL release function.  slot holds the string and what     *)
(* the caller last put into it:                                            *)
(*   mode     "none", "set" (a copy was asked for), "given", or "cleared"  *)
(*            (a copy was asked for and the string was cleared since)      *)
(*   ptr      the buffer given, or the buffer the string had after the set *)
(*   length   the length the string has to report                          *)
(*   cap      the allocated size the string had after the set or give      *)
(*   free     the release function given                                   *)
(*   content  the bytes put in                                             *)
(***************************************************************************)
NotHeld ==
    [mode |-> "none", ptr |-> NULL, length |-> 0, cap |-> 0, free |-> "NULL",
     content |-> <<>>]

Held(mode, r, length, free, content) ==
    [mode |-> mode, ptr |-> r.str.buf, length |-> length,
     cap |-> r.str.allocated_size, free |-> free, content |-> content]

ReleaseFuncs == {"release", "NULL"}

CStrings == {content \in ByteSeqs : \A i \in DOMAIN content : content[i] # 0}

InitString ==
    /\ slot = [str |-> avro_raw_string_init, held |-> NotHeld]
    /\ bufs = EmptyFun
    /\ last = [op |-> "init"]
    /\ heap = EmptyFun /\ mem = EmptyFun /\ refs = EmptyFun /\ err = ""
    /\ IdleMap

\* The buffer the caller gave with a NULL release function, when the string
\* has let go of it: the caller takes it back.
TakenBack(r) ==
    IF slot.held.mode = "given" /\ slot.held.free = "NULL"
           /\ r.str.buf # slot.held.ptr
    THEN {slot.held.ptr} ELSE {}

\* The call op has returned r; the caller frees the source src of the copy.
StringDone(op, r, held, src) ==
    /\ slot' = [str |-> r.str, held |-> held]
    /\ bufs' = Discard(r.m.bufs, TakenBack(r) \cup {src})
    /\ last' = [op |-> op, before |-> slot, log |-> r.m.log,
                kept |-> slot.held.ptr \in DOMAIN r.m.bufs]
    /\ UNCHANGED <<heap, mem, refs, err, map, keybuf>>

SetLengthFrom(content, lit) ==
    StringDone("set_length",
        avro_raw_string_set_length(lit.m, slot.str, lit.ptr, Len(content)),
        Held("set",
             avro_raw_string_set_length(lit.m, slot.str, lit.ptr, Len(content)),
             Len(content), "NULL", content),
        lit.ptr)

SetLength(content) ==
    /\ Len(content) <= MaxStrLen
    /\ SetLengthFrom(content, MakeLiteral(Mem(bufs), content))

SetFrom(content, lit) ==
    StringDone("set",
        avro_raw_string_set(lit.m, slot.str, lit.ptr),
        Held("set", avro_raw_string_set(lit.m, slot.str, lit.ptr),
             Len(content) + 1, "NULL", Append(content, 0)),
        lit.ptr)

Set(content) ==
    /\ Len(content) <= MaxStrLen
    /\ SetFrom(content, MakeLiteral(Mem(bufs), content))

\* A block of the caller's that holds exactly the bytes of content.
MakeBlock(a, content) == [m |-> MemWrite(a.m, a.ptr, 0, content), ptr |-> a.ptr]

GiveLengthFrom(content, free, blk) ==
    StringDone("give_length",
        avro_raw_string_give_length(blk.m, slot.str, blk.ptr, Len(content), free),
        [mode |-> "given", ptr |-> blk.ptr, length |-> Len(content),
         cap |-> Len(content), free |-> free, content |-> content],
        NULL)

GiveLength(content, free) ==
    /\ Len(content) <= MaxStrLen
    /\ GiveLengthFrom(content, free,
           MakeBlock(avro_malloc(Mem(bufs), Len(content)), content))

GiveFrom(content, free, blk) ==
    StringDone("give",
        avro_raw_string_give(blk.m, slot.str, blk.ptr, free),
        [mode |-> "given", ptr |-> blk.ptr, length |-> Len(content) + 1,
         cap |-> Len(content) + 1, free |-> free, content |-> Append(content, 0)],
        NULL)

Give(content, free) ==
    /\ Len(content) <= MaxStrLen
    /\ GiveFrom(content, free, MakeLiteral(Mem(bufs), content))

StringClear ==
    /\ last.op # "clear"
    /\ StringDone("clear", avro_raw_string_clear(Mem(bufs), slot.str),
           IF slot.held.mode \in {"set", "cleared"}
           THEN [slot.held EXCEPT !.mode = "cleared", !.length = 0,
                                  !.content = <<>>]
           ELSE NotHeld,
           NULL)

StringDoneCall ==
    /\ last.op # "done"
    /\ StringDone("done", avro_raw_string_done(Mem(bufs), slot.str), NotHeld, NULL)

\* avro_raw_string_init, on a string that the caller has finalized.
StringInit ==
    /\ last.op = "done"
    /\ StringDone("init", [m |-> Mem(bufs), str |-> avro_raw_string_init],
                  NotHeld, NULL)

NextString ==
    \/ \E content \in ByteSeqs : SetLength(content)
    \/ \E content \in CStrings : Set(content)
    \/ \E content \in ByteSeqs, free \in ReleaseFuncs : GiveLength(content, free)
    \/ \E content \in CStrings, free \in ReleaseFuncs : Give(content, free)
    \/ StringClear
    \/ StringDoneCall
    \/ StringInit

SpecString == InitString /\ [][NextString]_vars

(***************************************************************************)
(* The string's contract, in SpecString.                                   *)
(***************************************************************************)
StringOps == {"set_length", "set", "give_length", "give", "clear", "done"}

Frees(log) == Count(log, "avro_alloc_free") + Count(log, "bad_free")

\* The next copy fits into the buffer the string had when it was cleared.
Fits == slot.held.length + 1 <= last.before.held.cap

\* C12: a clear of a string that holds a copy it made itself keeps the
\* buffer: buf and allocated_size are as before, nothing is freed and size
\* is 0; the next set of a value that fits uses that buffer again, freeing
\* nothing; a clear of a string that holds a given buffer drops it.
C12_ClearKeepsOwnBuffer ==
    /\ (last.op = "clear" /\ last.before.held.mode = "set") =>
           /\ slot.str.buf = last.before.str.buf
           /\ slot.str.allocated_size = last.before.str.allocated_size
           /\ Frees(last.log) = 0
           /\ slot.str.size = 0
    /\ (last.op \in {"set", "set_length"} /\ last.before.held.mode = "cleared"
            /\ Fits) =>
           /\ slot.str.buf = last.before.held.ptr
           /\ slot.str.allocated_size = last.before.held.cap
           /\ Frees(last.log) = 0
    /\ (last.op = "clear" /\ last.before.held.mode = "given") =>
           slot.str.buf = NULL /\ slot.str.size = 0

\* What the code does: a clear drops whatever buffer the string has.
ClearDropsEveryBuffer ==
    last.op = "clear" =>
        /\ slot.str.buf = NULL /\ slot.str.allocated_size = 0
        /\ slot.str.size = 0
        /\ last.before.str.free # "NULL" => Len(last.log) = 1

ClearDropsEveryBuffer_Witness ==
    /\ last.op = "clear" /\ last.before.held.mode = "set"
    /\ CountAt(last.log, "avro_alloc_free", last.before.str.buf) = 1

C13_WitnessNull ==
    /\ last.op = "done"
    /\ last.before.held.mode = "given" /\ last.before.held.free = "NULL"
    /\ last.kept

\* C14: after a set the string reports the length set and holds the bytes
\* set in a buffer that is not the source (which the caller has freed by
\* now); after a give the string reports the length given and
\* avro_raw_string_get returns the given buffer itself, and no other
\* buffer exists.
C14_SetGetGiveGet ==
    /\ slot.held.mode = "set" =>
           /\ avro_raw_string_length(slot.str) = slot.held.length
           /\ avro_raw_string_get(slot.str) \in DOMAIN bufs
           /\ MemRead(Mem(bufs), avro_raw_string_get(slot.str), slot.held.length)
                  = slot.held.content
    /\ slot.held.mode = "given" =>
           /\ avro_raw_string_length(slot.str) = slot.held.length
           /\ avro_raw_string_get(slot.str) = slot.held.ptr
           /\ DOMAIN bufs = {slot.held.ptr}

C14_Witness ==
    /\ last.op = "set_length" /\ slot.held.mode = "set"
    /\ slot.held.length = MaxStrLen
    /\ last.before.held.mode = "given"

C14_WitnessGive ==
    /\ last.op = "give_length" /\ slot.held.mode = "given"
    /\ slot.held.length = MaxStrLen
    /\ last.before.held.mode = "set"

HoldersOf(h, s) == {p \in DOMAIN h : h[p].schema = s}

LogAt(log, e, s) ==
    Cardinality({i \in DOMAIN log : log[i].ev = e /\ log[i].schema = s})

\* C19: the references that the consumers of a resolver hold are balanced:
\* at any time the references taken on a schema are one for each consumer
\* that has it as its writer schema; avro_raw_X_resolver_new has taken one
\* more than it has dropped for each consumer it leaves; avro_consumer_free
\* drops one for each consumer of the resolver and takes none, which leaves
\* every count as it was before the resolver was built.
C19_ReferencesBalanced ==
    /\ \A s \in WriterSchemas :
           RefCount(refs, s) = Cardinality(HoldersOf(heap, s))
    /\ last.op = "resolver_new" =>
           \A s \in WriterSchemas :
               LogAt(last.log, "incref", s) - LogAt(last.log, "decref", s)
                   = Cardinality(HoldersOf(heap, s))
    /\ last.op = "consumer_free" =>
           /\ refs = EmptyFun
           /\ \A s \in WriterSchemas :
                  /\ LogAt(last.log, "decref", s)
                         = Cardinality(HoldersOf(last.before, s))
                  /\ LogAt(last.log, "incref", s) = 0

\* A writer-union resolver with its branch child has been built and freed.
C19_Witness ==
    /\ last.op = "consumer_free"
    /\ Cardinality(DOMAIN last.before) = 2
    /\ \E s \in WriterSchemas :
           is_avro_union(s) /\ LogAt(last.log, "decref", s) = 1
    /\ refs = EmptyFun

(***************************************************************************)
(* The generator of schema_specific.c.  A schema is a term: its type, its  *)
(* name (named types and links) and its children (the items of an array,   *)
(* the values of a map, the branches of a union); the fields of a record   *)
(* and the target of a link are found by name in a table of records.       *)
(* ctx is the avro_specific_gen_t of a run, with the table and with what   *)
(* the run has written: a piece for each write call that went through.     *)
(***************************************************************************)
MAX_RECURSION_DEPTH == 64

GSchema(type, name, of) == [type |-> type, name |-> name, of |-> of]

GPrim(k) == GSchema(k, "", <<>>)

GArray(items) == GSchema("array", "", <<items>>)

GMap(values) == GSchema("map", "", <<values>>)

GUnion(branches) == GSchema("union", "", branches)

GRecord(name) == GSchema("record", name, <<>>)

GEnum(name) == GSchema("enum", name, <<>>)

GFixed(name) == GSchema("fixed", name, <<>>)

GLink(name) == GSchema("link", name, <<>>)

is_avro_link(schema) == schema.type = "link"

avro_schema_link_target(schema) == GRecord(schema.name)

\* The child schemas that avro_schema_write_def recurses into.
GChildren(ctx, schema) ==
    IF schema.type = "record" THEN ctx.fields[schema.name]
    ELSE IF schema.type \in {"array", "map", "union"} THEN schema.of
    ELSE <<>>

avro_schema_type_name(schema) ==
    IF schema.type \in {"record", "enum", "fixed", "link"} THEN schema.name
    ELSE schema.type

RECURSIVE UnionNameFrom(_, _)
UnionNameFrom(branches, i) ==
    IF i > Len(branches) THEN ""
    ELSE (IF i = 1 THEN "" ELSE "_") \o avro_schema_type_name(branches[i])
             \o UnionNameFrom(branches, i + 1)

get_union_name(schema) == UnionNameFrom(schema.of, 1)

\* get_schema_name appends to dest: the prefix of an array or of a map, and
\* then what the call on its child appends.  NameAppended is one such call, and
\* NameFrom follows them four at a time down to a schema that is neither.
NameAppended(st) ==
    IF st.schema.type = "array"
    THEN [dest |-> st.dest \o "array_", schema |-> st.schema.of[1]]
    ELSE IF st.schema.type = "map"
    THEN [dest |-> st.dest \o "map_", schema |-> st.schema.of[1]]
    ELSE st

RECURSIVE NameFrom(_)
NameFrom(st) ==
    IF st.schema.type = "union" THEN st.dest \o get_union_name(st.schema)
    ELSE IF st.schema.type \notin {"array", "map"}
    THEN st.dest \o avro_schema_type_name(st.schema)
    ELSE NameFrom(NameAppended(NameAppended(NameAppended(NameAppended(st)))))

get_schema_name(schema) == NameFrom([dest |-> "", schema |-> schema])

GenCtx(fields, fail_at) ==
    [fields |-> fields, fail_at |-> fail_at, started |-> {}, stack |-> <<>>,
     idx |-> <<>>, out |-> <<>>, writes |-> 0, rc |-> 0, err |-> "",
     max_stack |-> 0]

\* write (schema_specific.c:65-85), and the check around every call of it:
\* after a failure nothing more is done.  The write numbered fail_at is one
\* whose text does not fit the buffer; a failure of avro_write takes the same
\* way out.
write(ctx, kind, name) ==
    IF ctx.rc # 0 THEN ctx
    ELSE IF ctx.writes + 1 = ctx.fail_at
         THEN [ctx EXCEPT !.writes = @ + 1, !.rc = EINVAL,
                          !.err = "Buffer overflow"]
         ELSE [ctx EXCEPT !.writes = @ + 1,
                          !.out = Append(@, [kind |-> kind, name |-> name])]

RECURSIVE Texts(_, _)
Texts(ctx, n) == IF n = 0 THEN ctx ELSE Texts(write(ctx, "text", ""), n - 1)

\* schema_specific.c:151-241.  A reference to an array, a map or a union is
\* two writes, the kind and the name that tells which one; a reference to
\* a record is "recursive" when the record is on the schema stack; the
\* reference to a primitive type names no definition.
RECURSIVE avro_schema_type_ref(_, _)
avro_schema_type_ref(ctx, schema) ==
    IF schema.type = "link"
    THEN avro_schema_type_ref(ctx, avro_schema_link_target(schema))
    ELSE IF schema.type \in {"array", "map", "union"}
         THEN write(write(ctx, "text", ""), "ref", get_schema_name(schema))
         ELSE IF schema.type = "record"
              THEN write(ctx,
                         IF \E i \in DOMAIN ctx.stack : ctx.stack[i] = schema
                         THEN "recursive" ELSE "ref",
                         schema.name)
              ELSE IF schema.type \in {"enum", "fixed"}
                   THEN write(ctx, "ref", schema.name)
                   ELSE write(ctx, "prim", schema.type)

Forward_nounion(ctx, schema, schema_name) ==
    IF schema.type \in {"array", "map"}
    THEN Texts(write(ctx, "forward", schema_name), 2)
    ELSE IF schema.type \in {"enum", "fixed", "record"}
         THEN write(ctx, "forward", schema_name)
         ELSE ctx

\* schema_specific.c:299-350: the forward declaration.
Forward(ctx, schema, schema_name) ==
    IF schema.type \in {"array", "map", "union"}
    THEN Texts(write(ctx, "forward", schema_name), 2)
    ELSE IF schema.type \in {"enum", "fixed", "record"}
         THEN write(ctx, "forward", schema_name)
         ELSE ctx

NumSymbols == 2

\* schema_specific.c:488-521: a field macro around the reference to each field.
RECURSIVE RecordFields(_, _, _)
RecordFields(ctx, children, i) ==
    IF i > Len(children) THEN ctx
    ELSE RecordFields(
             Texts(avro_schema_type_ref(Texts(ctx, 1), children[i]), 1),
             children, i + 1)

\* schema_specific.c:531-547: a branch macro around the reference to each
\* branch.
RECURSIVE UnionBranches(_, _, _)
UnionBranches(ctx, children, i) ==
    IF i > Len(children) THEN ctx
    ELSE UnionBranches(
             Texts(avro_schema_type_ref(Texts(ctx, 3), children[i]), 1),
             children, i + 1)

\* schema_specific.c:415-559: the full definition.
Definition(ctx, schema, schema_name) ==
    IF schema.type \in {"array", "map"}
    THEN Texts(avro_schema_type_ref(
                   Texts(write(ctx, "define", schema_name), 2), schema.of[1]),
               1)
    ELSE IF schema.type = "enum"
    THEN Texts(write(ctx, "define", schema_name), NumSymbols + 1)
    ELSE IF schema.type = "fixed"
    THEN write(ctx, "define", schema_name)
    ELSE IF schema.type = "record"
    THEN Texts(RecordFields(write(ctx, "define", schema_name),
                            GChildren(ctx, schema), 1), 1)
    ELSE IF schema.type = "union"
    THEN Texts(UnionBranches(Texts(write(ctx, "define", schema_name), 2),
                             schema.of, 1), 3)
    ELSE ctx

\* avro_specific_gen_open: the header of the definition file is its one write.
avro_specific_gen_open(fields, fail_at) ==
    Texts(GenCtx(fields, fail_at), 1)

\* schema_specific.c:289-295: the schema is pushed on the stack, where the
\* index of its loop over its children starts at the first, and its name
\* joins the started ones.
Started(ctx, schema, schema_name) ==
    [ctx EXCEPT !.stack = Append(@, schema),
                !.idx = Append(@, 1),
                !.started = @ \cup {schema_name},
                !.max_stack = IF Len(ctx.stack) + 1 > @
                              THEN Len(ctx.stack) + 1 ELSE @]

\* The last lines of avro_schema_write_def: reached only when no step before
\* them has failed.
Popped(ctx) ==
    IF ctx.rc # 0 THEN ctx
    ELSE [ctx EXCEPT !.stack = SubSeq(@, 1, Len(@) - 1),
                     !.idx = SubSeq(@, 1, Len(@) - 1)]

Reached(ctx, schema_name) == schema_name \in ctx.started

StackFull_late(ctx) == Len(ctx.stack) = MAX_RECURSION_DEPTH + 1

StackFull(ctx) == Len(ctx.stack) = MAX_RECURSION_DEPTH

Target(schema) ==
    IF is_avro_link(schema) THEN avro_schema_link_target(schema) ELSE schema

\* avro_schema_write_def from its entry to its switch over the children.
WriteDefEntered(ctx, schema, schema_name) ==
    IF Reached(ctx, schema_name) THEN ctx
    ELSE IF StackFull(ctx)
    THEN [ctx EXCEPT !.rc = EINVAL,
                     !.err = "Exceeded schema recursion depth"]
    ELSE Forward(Started(ctx, schema, schema_name), schema, schema_name)

\* avro_specific_gen_close: the table of started names is emptied, and the
\* end of the definition file, the header file and the source file are
\* written, whatever happened before.
avro_specific_gen_close(ctx) ==
    Texts([ctx EXCEPT !.rc = 0, !.started = {}], 3)

(***************************************************************************)
(* SpecGen: one run of avro_schema_to_specific on a schema, a step at a    *)
(* time: the call of avro_schema_write_def on a schema, the next turn of   *)
(* the loop over the children of the schema on top of the stack, its       *)
(* definition, the return to the caller.  The schemas are built from two   *)
(* records a and b, whose fields are drawn from the types below, and       *)
(* from chains of arrays around the depth limit; fail_at is the write      *)
(* that fails, 0 when none does.                                           *)
(***************************************************************************)
MaxFields == 2

MaxFailAt == 8

FieldsOfA ==
    {GPrim("int"), GArray(GPrim("int")), GLink("a"), GArray(GLink("a")),
     GRecord("b"), GEnum("e"), GUnion(<<GPrim("null"), GLink("a")>>)}

FieldsOfB == {<<GFixed("f")>>, <<GMap(GPrim("int")), GLink("a")>>}

FieldTables ==
    {[a |-> fa, b |-> fb] :
        fa \in UNION {[1..n -> FieldsOfA] : n \in 1..MaxFields},
        fb \in FieldsOfB}

\* Arrays of arrays, d deep, of int, built from the inside four at a time.
RECURSIVE ChainAround(_, _)
ChainAround(schema, d) ==
    IF d = 0 \/ schema.type = "link" THEN schema
    ELSE IF d < 4 THEN ChainAround(GArray(schema), d - 1)
    ELSE ChainAround(GArray(GArray(GArray(GArray(schema)))), d - 4)

Chain(d) == ChainAround(GPrim("int"), d)

Chains ==
    {Chain(d) : d \in (MAX_RECURSION_DEPTH - 2)..(MAX_RECURSION_DEPTH + 1)}

Roots ==
    {GRecord("a"), GUnion(<<GRecord("a"), GArray(GPrim("int"))>>),
     GUnion(<<GPrim("null"), GRecord("a")>>), GArray(GRecord("a"))}

NoFields == [a |-> <<>>, b |-> <<>>]

GenInputs ==
    {[schema |-> s, fields |-> t, fail_at |-> f] :
        s \in Roots, t \in FieldTables, f \in 0..MaxFailAt}
    \cup {[schema |-> s, fields |-> NoFields, fail_at |-> f] :
        s \in Chains, f \in 0..MaxFailAt}

InitGen ==
    /\ slot \in GenInputs
    /\ last = [op |-> "init", steps |-> 0]
    /\ bufs = EmptyFun
    /\ heap = EmptyFun /\ mem = EmptyFun /\ refs = EmptyFun /\ err = ""
    /\ IdleMap

GenStep(op, ctx, pending, rc) ==
    /\ last' = [op |-> op, ctx |-> ctx, pending |-> pending, rc |-> rc,
                steps |-> last.steps + 1]
    /\ err' = ctx.err
    /\ UNCHANGED <<heap, mem, refs, slot, map, keybuf, bufs>>

\* avro_schema_to_specific up to its call of avro_schema_write_def.
Opened(ctx) ==
    IF ctx.rc # 0
    THEN GenStep("done", ctx, NULL, EINVAL)
    ELSE GenStep("call", ctx, slot.schema, 0)

ToSpecificOpen ==
    /\ last.op = "init"
    /\ Opened(avro_specific_gen_open(slot.fields, slot.fail_at))

Entered(ctx) ==
    GenStep(IF ctx.rc = 0 /\ Len(ctx.stack) > Len(last.ctx.stack)
            THEN "children" ELSE "return", ctx, NULL, 0)

WriteDefEnter ==
    /\ last.op = "call"
    /\ Entered(WriteDefEntered(last.ctx, Target(last.pending),
                               get_schema_name(Target(last.pending))))

Top(ctx) == ctx.stack[Len(ctx.stack)]

TopIdx(ctx) == ctx.idx[Len(ctx.idx)]

\* A turn of the loop over the children: the call on the next child.
WriteDefChild ==
    /\ last.op = "children"
    /\ TopIdx(last.ctx) <= Len(GChildren(last.ctx, Top(last.ctx)))
    /\ GenStep("call",
               [last.ctx EXCEPT !.idx[Len(last.ctx.idx)] = @ + 1],
               GChildren(last.ctx, Top(last.ctx))[TopIdx(last.ctx)], 0)

\* After the last child: the definition and the pop.
WriteDefDefine ==
    /\ last.op = "children"
    /\ TopIdx(last.ctx) > Len(GChildren(last.ctx, Top(last.ctx)))
    /\ GenStep("return",
               Popped(Definition(last.ctx, Top(last.ctx),
                                 get_schema_name(Top(last.ctx)))),
               NULL, 0)

\* The return of a call: to the loop of its caller when it returns 0 and has
\* one, out of every caller when it returns an error.
\* The size of the schema stack when the caller of the generator made the
\* call of avro_schema_write_def that is running: 0 in a run of
\* avro_schema_to_specific, whose one call is the first on its generator.
Base == IF "before" \in DOMAIN slot THEN slot.before ELSE 0

WriteDefReturn ==
    /\ last.op = "return"
    /\ GenStep(IF last.ctx.rc = 0 /\ Len(last.ctx.stack) > Base
               THEN "children" ELSE "close", last.ctx, NULL, 0)

Closed(ctx, closed) ==
    GenStep("done", ctx, NULL, IF ctx.rc # 0 THEN ctx.rc ELSE closed.rc)

ToSpecificClose ==
    /\ last.op = "close"
    /\ Closed(last.ctx, avro_specific_gen_close(last.ctx))

NextGen ==
    \/ ToSpecificOpen
    \/ WriteDefEnter
    \/ WriteDefChild
    \/ WriteDefDefine
    \/ WriteDefReturn
    \/ ToSpecificClose

SpecGen == InitGen /\ [][NextGen]_vars

(***************************************************************************)
(* What a schema calls for, computed from the schema alone: the schemas    *)
(* that can be reached from it, the names of their layouts, and how deep   *)
(* they nest.                                                              *)
(***************************************************************************)
Visit(fields, st) ==
    IF st.todo = <<>> THEN st
    ELSE IF Target(Head(st.todo)) \in st.seen
         THEN [todo |-> Tail(st.todo), seen |-> st.seen]
         ELSE [todo |-> GChildren([fields |-> fields], Target(Head(st.todo)))
                            \o Tail(st.todo),
               seen |-> st.seen \cup {Target(Head(st.todo))}]

\* Four visits at a time.
RECURSIVE SchemasFrom(_, _)
SchemasFrom(fields, st) ==
    IF st.todo = <<>> THEN st.seen
    ELSE SchemasFrom(fields,
             Visit(fields, Visit(fields, Visit(fields, Visit(fields, st)))))

Reachable ==
    SchemasFrom(slot.fields, [todo |-> <<slot.schema>>, seen |-> {}])

LayoutTypes == {"array", "map", "union", "record", "enum", "fixed"}

LayoutNames ==
    {get_schema_name(s) : s \in {t \in Reachable : t.type \in LayoutTypes}}

\* The stack holds schemas that differ, each the child of the one below it:
\* it never needs more entries than there are schemas to reach, and needs
\* that many when each of them has one child at most.
Needed == Cardinality(Reachable)

Linear ==
    \A s \in Reachable : Len(GChildren([fields |-> slot.fields], s)) <= 1

Where(out, kind, name) ==
    {i \in DOMAIN out : out[i].kind = kind /\ out[i].name = name}

ForwardThenDefinition(out, name) ==
    /\ Cardinality(Where(out, "forward", name)) = 1
    /\ Cardinality(Where(out, "define", name)) = 1
    /\ \A i \in Where(out, "forward", name), j \in Where(out, "define", name) :
           i < j

AtMostOnce(out, name) ==
    /\ Cardinality(Where(out, "forward", name)) <= 1
    /\ Cardinality(Where(out, "define", name)) <= 1
    /\ \A j \in Where(out, "define", name) :
           \E i \in Where(out, "forward", name) : i < j

\* Every step is one of: the open and the close, a call and its return, a
\* turn of the loop of a started schema, its definition.
StepBound ==
    2 + (Cardinality(Reachable) + 1) * (3 + 2 * (MaxFields + 2))

\* The run is never stuck before its end: every position but the last is the
\* guard of a step, and the loop over the children has its schema on the
\* stack.
GenTerminates ==
    /\ last.steps <= StepBound
    /\ last.op \in {"init", "call", "children", "return", "close", "done"}
    /\ last.op = "children"
           => Len(last.ctx.stack) > 0 /\ Len(last.ctx.idx) = Len(last.ctx.stack)

DepthError == "Exceeded schema recursion depth"

C16_DepthBound ==
    /\ [](last.op # "init" =>
            /\ Len(last.ctx.stack) <= MAX_RECURSION_DEPTH
            /\ last.ctx.max_stack <= MAX_RECURSION_DEPTH)
    /\ [][(/\ last.op = "call"
           /\ Len(last.ctx.stack) = MAX_RECURSION_DEPTH
           /\ get_schema_name(Target(last.pending)) \notin last.ctx.started)
          => (/\ last'.op = "return"
              /\ last'.ctx.rc = EINVAL
              /\ err' = DepthError
              /\ last'.ctx.out = last.ctx.out)]_vars
    /\ [](last.op = "done" /\ err = DepthError => last.rc = EINVAL)
    /\ [](last.op = "done" /\ Needed <= MAX_RECURSION_DEPTH
            => /\ err # DepthError
               /\ slot.fail_at = 0 => last.rc = 0)
    /\ [](last.op = "done" /\ Needed > MAX_RECURSION_DEPTH /\ Linear
               /\ slot.fail_at = 0
            => last.rc = EINVAL /\ err = DepthError)

C16_Witness ==
    /\ last.op = "done" /\ last.rc = EINVAL /\ err = DepthError
    /\ last.ctx.max_stack = MAX_RECURSION_DEPTH

C16_WitnessFits ==
    /\ last.op = "done" /\ last.rc = 0
    /\ Needed = MAX_RECURSION_DEPTH
    /\ last.ctx.max_stack = MAX_RECURSION_DEPTH

(***************************************************************************)
(* SpecCc: the main of avrocc.c on its schema files, a turn of its loop at *)
(* a time.  A file is what happens to it: it is generated ("ok"), or it    *)
(* cannot be opened, its buffer cannot be allocated, it cannot be read,    *)
(* its JSON does not parse, or its definition cannot be generated.  Every  *)
(* fprintf(stderr) is a block of stderr: its first line and the file it    *)
(* names, 0 when it names none.  The file argv[i] is named by i + 1.       *)
(***************************************************************************)
MaxFiles == 3

FileOutcomes == {"ok", "open", "malloc", "read", "parse", "generate"}

CcInputs == UNION {[1..n -> FileOutcomes] : n \in 0..MaxFiles}

Block(header, file) == [header |-> header, file |-> file]

\* avrocc.c:83-132: what main prints for a file that fails.
FailureBlock(outcome, file) ==
    IF outcome = "open" THEN Block("Error processing schema", file)
    ELSE IF outcome \in {"malloc", "read"}
    THEN Block("Could not read schema JSON", 0)
    ELSE IF outcome = "parse" THEN Block("Error parsing schema JSON", 0)
    ELSE Block("Error write schema definition", 0)

\* main is in its loop, or before it.
Running == last.op \in {"start", "next"}

InitCc ==
    /\ slot \in CcInputs
    /\ last = [op |-> "start", i |-> 0, stderr |-> <<>>, exit |-> 0]
    /\ bufs = EmptyFun
    /\ heap = EmptyFun /\ mem = EmptyFun /\ refs = EmptyFun /\ err = ""
    /\ IdleMap

CcStep(op, i, stderr, exit) ==
    /\ last' = [op |-> op, i |-> i, stderr |-> stderr, exit |-> exit]
    /\ UNCHANGED <<heap, mem, refs, err, slot, map, keybuf, bufs>>

\* avrocc.c:72-76.
CcUsage ==
    /\ Running /\ last.op = "start"
    /\ Len(slot) <= 0
    /\ CcStep("usage", 0,
              <<Block("avrocc: Must specify at least one schema file.", 0),
                Block("Usage", 0)>>, 1)

\* avrocc.c:79-135: a turn of the loop.
CcFile ==
    /\ Running
    /\ Len(slot) > 0 /\ last.i < Len(slot)
    /\ IF slot[last.i + 1] = "ok"
       THEN CcStep("next", last.i + 1, last.stderr, 0)
       ELSE CcStep("exit", last.i,
                   Append(last.stderr,
                          FailureBlock(slot[last.i + 1], last.i + 1)), 1)

\* avrocc.c:136.
CcReturn ==
    /\ Running
    /\ Len(slot) > 0 /\ last.i >= Len(slot)
    /\ CcStep("return", last.i, last.stderr, 0)

NextCc == CcUsage \/ CcFile \/ CcReturn

SpecCc == InitCc /\ [][NextCc]_vars

FailedFiles == {f \in DOMAIN slot : slot[f] # "ok"}

BlocksFor(f) ==
    {k \in DOMAIN last.stderr :
        last.stderr[k] = Block("Error processing schema", f)}

\* C17: when avrocc has exited, each schema file that could not be read,
\* parsed or generated has exactly one 'Error processing schema <file>:' block
\* on stderr, and the exit code is 1 when at least one file failed.
C17_EveryFailedFileReported ==
    ~Running /\ Len(slot) > 0
        => /\ \A f \in FailedFiles : Cardinality(BlocksFor(f)) = 1
           /\ FailedFiles # {} => last.exit = 1

\* What main does: it stops at the first file that fails, with one block for
\* it and exit code 1, and the files after it are not looked at.
FirstFailureReported ==
    ~Running /\ Len(slot) > 0
        => /\ Len(last.stderr) = Cardinality(FailedFiles \cap {last.i + 1})
           /\ \A f \in FailedFiles : f > last.i
           /\ FailedFiles # {} =>
                  /\ last.exit = 1
                  /\ last.i + 1 \in FailedFiles
                  /\ last.stderr = <<FailureBlock(slot[last.i + 1], last.i + 1)>>
           /\ FailedFiles = {} => last.exit = 0 /\ last.stderr = <<>>

FirstFailureReported_Witness ==
    /\ last.exit = 1 /\ Len(slot) = 3
    /\ slot[1] = "ok" /\ slot[2] = "parse" /\ slot[3] = "open"
    /\ last.stderr = <<Block("Error parsing schema JSON", 0)>>

(***************************************************************************)
(* SpecRef: threads that share one reference count, avro/refcount.h.  The  *)
(* build is the one with AVRO_NON_ATOMIC_REFCOUNT, where an increment is a *)
(* test, a load and a store, or one of the atomic ones (Mac OS X, GCC      *)
(* intrinsics, x86, Windows), where it is a test and one atomic            *)
(* instruction.  A thread holds references: it increments the count while  *)
(* it holds one, and decrements it to let one go.  The count starts as the *)
(* number of references the threads hold, or near the largest int when     *)
(* other owners hold the rest.  An int is 32 bits wide.                    *)
(***************************************************************************)
INT_MAX == 2147483647

INT_MIN == (-INT_MAX) - 1

MaxOwn == 2

MaxCalls == 3

Threads == {1, 2}

Builds == {"non_atomic", "atomic"}

\* The static-object value that the tests of avro_refcount_inc and
\* avro_refcount_dec compare with.
Static == -1

\* refcount.h:153: __sync_add_and_fetch and its like, on 32 bits.
AtomicAdd(v) == IF v = INT_MAX THEN INT_MIN ELSE v + 1

\* refcount.h:161: __sync_sub_and_fetch and its like, on 32 bits.
AtomicSub(v) == IF v = INT_MIN THEN INT_MAX ELSE v - 1

\* refcount.h:78: *refcount += 1 on an int.  Signed overflow is undefined:
\* the value may wrap, stay, or be any other, the static one included.
PlainAdd(v) == IF v = INT_MAX THEN {INT_MIN, INT_MAX, Static} ELSE {v + 1}

\* refcount.h:86.
PlainSub(v) == IF v = INT_MIN THEN {INT_MAX, INT_MIN, Static} ELSE {v - 1}

DecReturns_before(value) == value = 1

\* refcount.h:161, 87: the test of the decremented value.
DecReturns(value) == value = 0

Idle(own) ==
    [pc |-> "idle", own |-> own, tmp |-> 0, incs |-> 0, decs |-> 0,
     trues |-> 0]

InitRef ==
    /\ \E build \in Builds, refcount \in {Cardinality(Threads), INT_MAX - 1} :
           slot = [build |-> build, initial |-> refcount,
                   refcount |-> refcount]
    /\ last = [t \in Threads |-> Idle(1)]
    /\ bufs = EmptyFun
    /\ heap = EmptyFun /\ mem = EmptyFun /\ refs = EmptyFun /\ err = ""
    /\ IdleMap

RefStep(t, thread, refcount) ==
    /\ last' = [last EXCEPT ![t] = thread]
    /\ slot' = [slot EXCEPT !.refcount = refcount]
    /\ UNCHANGED <<heap, mem, refs, err, map, keybuf, bufs>>

Returned(thread) == [thread EXCEPT !.pc = "idle", !.tmp = 0]

\* avro_refcount_inc, the test of its first line.
IncCheck(t) ==
    /\ last[t].pc = "idle" /\ last[t].incs + last[t].decs < MaxCalls
    /\ last[t].own >= 1 /\ last[t].own < MaxOwn
    /\ RefStep(t,
               IF slot.refcount = Static
               THEN last[t]
               ELSE [last[t] EXCEPT
                        !.pc = IF slot.build = "atomic"
                               THEN "inc_add" ELSE "inc_load"],
               slot.refcount)

\* The atomic increment.
IncAdd(t) ==
    /\ last[t].pc = "inc_add"
    /\ RefStep(t, Returned([last[t] EXCEPT !.own = @ + 1, !.incs = @ + 1]),
               AtomicAdd(slot.refcount))

\* *refcount += 1: the load.
IncLoad(t) ==
    /\ last[t].pc = "inc_load"
    /\ RefStep(t, [last[t] EXCEPT !.pc = "inc_store", !.tmp = slot.refcount],
               slot.refcount)

\* *refcount += 1: the store.
IncStore(t) ==
    /\ last[t].pc = "inc_store"
    /\ \E value \in PlainAdd(last[t].tmp) :
           RefStep(t, Returned([last[t] EXCEPT !.own = @ + 1, !.incs = @ + 1]),
                   value)

\* avro_refcount_dec, the test of its first line.
DecCheck(t) ==
    /\ last[t].pc = "idle" /\ last[t].incs + last[t].decs < MaxCalls
    /\ last[t].own >= 1
    /\ RefStep(t,
               IF slot.refcount = Static
               THEN [last[t] EXCEPT !.own = @ - 1]
               ELSE [last[t] EXCEPT !.own = @ - 1,
                        !.pc = IF slot.build = "atomic"
                               THEN "dec_sub" ELSE "dec_load"],
               slot.refcount)

DecSubReturned(t, value) ==
    RefStep(t, Returned([last[t] EXCEPT !.decs = @ + 1,
                            !.trues = IF DecReturns(value) THEN @ + 1 ELSE @]),
            value)

\* The atomic decrement, and the test of what it returns.
DecSub(t) ==
    /\ last[t].pc = "dec_sub"
    /\ DecSubReturned(t, AtomicSub(slot.refcount))

\* *refcount -= 1: the load.
DecLoad(t) ==
    /\ last[t].pc = "dec_load"
    /\ RefStep(t, [last[t] EXCEPT !.pc = "dec_store", !.tmp = slot.refcount],
               slot.refcount)

\* *refcount -= 1: the store.
DecStore(t) ==
    /\ last[t].pc = "dec_store"
    /\ \E value \in PlainSub(last[t].tmp) :
           RefStep(t, [last[t] EXCEPT !.pc = "dec_test", !.tmp = 0], value)

\* return (*refcount == 0): the count is read again.
DecTest(t) ==
    /\ last[t].pc = "dec_test"
    /\ RefStep(t, Returned([last[t] EXCEPT !.decs = @ + 1,
                               !.trues = IF DecReturns(slot.refcount)
                                         THEN @ + 1 ELSE @]),
               slot.refcount)

NextRef ==
    \E t \in Threads :
        \/ IncCheck(t)
        \/ IncAdd(t)
        \/ IncLoad(t)
        \/ IncStore(t)
        \/ DecCheck(t)
        \/ DecSub(t)
        \/ DecLoad(t)
        \/ DecStore(t)
        \/ DecTest(t)

SpecRef == InitRef /\ [][NextRef]_vars

RECURSIVE SumOver(_, _)
SumOver(f, S) ==
    IF S = {} THEN 0
    ELSE f[CHOOSE t \in S : TRUE] + SumOver(f, S \ {CHOOSE t \in S : TRUE})

Incs == SumOver([t \in Threads |-> last[t].incs], Threads)

Decs == SumOver([t \in Threads |-> last[t].decs], Threads)

Trues == SumOver([t \in Threads |-> last[t].trues], Threads)

HeldRefs == SumOver([t \in Threads |-> last[t].own], Threads)

Quiet == \A t \in Threads : last[t].pc = "idle"

\* initial + delta as an int holds it.
Wrapped(initial, delta) ==
    IF delta > 0 /\ initial > INT_MAX - delta
    THEN INT_MIN + (delta - (INT_MAX - initial) - 1)
    ELSE initial + delta

NoUpdateLost == Quiet => slot.refcount = Wrapped(slot.initial, Incs - Decs)

OneDecReturnsTrue ==
    /\ Trues <= 1
    /\ Trues = 1 => slot.refcount = 0 /\ Quiet /\ HeldRefs = 0
    /\ (Quiet /\ HeldRefs = 0 /\ slot.initial = Cardinality(Threads)) => Trues = 1

IncWrites(t) ==
    last[t].pc \in {"inc_add", "inc_store"} /\ last'[t].pc = "idle"

Operand(t) == IF last[t].pc = "inc_add" THEN slot.refcount ELSE last[t].tmp

\* C20: an increment of a count that is not negative never leaves a smaller
\* count (it has not wrapped past the largest int) and never leaves the
\* static value -1.
C20_IncNeverOverflows ==
    [][\A t \in Threads :
          IncWrites(t) /\ Operand(t) >= 0
              => slot'.refcount >= Operand(t) /\ slot'.refcount # Static]_vars

\* What holds: an increment of a count below the largest int leaves the
\* count it found plus one.
IncBelowMax ==
    [][\A t \in Threads :
          IncWrites(t) /\ Operand(t) >= 0 /\ Operand(t) < INT_MAX
              => slot'.refcount = Operand(t) + 1]_vars

(***************************************************************************)
(* When avro_consumer_free drops the schema references (consumer.c:44-46). *)
(***************************************************************************)
\* The positions of the log at which consumer p enters the freeing set.
VisitsOf(log, p) == {i \in DOMAIN log : log[i].ev = "visit" /\ log[i].id = p}

Decrefs(log) == {i \in DOMAIN log : log[i].ev = "decref"}

\* Consumer p has entered the freeing set before position i of the log.
VisitedBefore(log, p, i) == \E j \in VisitsOf(log, p) : j < i

\* C21: avro_consumer_free releases the retained writer schemas only after
\* the whole traversal has completed: no schema reference is dropped while
\* some consumer reachable from the root has not yet been visited.
C21_ReleaseAfterTraversal ==
    last.op = "consumer_free" =>
        \A i \in Decrefs(last.log) :
            \A p \in Reach(last.before, last.consumer) :
                VisitedBefore(last.log, p, i)

\* The reference of a consumer is dropped when the consumer enters the
\* freeing set, before its children are traversed: every decref of the log
\* follows the visit and the read of one consumer, is of that consumer's
\* schema, and each reachable consumer has exactly one.
ReleaseAtVisit ==
    last.op = "consumer_free" =>
        /\ \A i \in Decrefs(last.log) :
               /\ i > 2
               /\ last.log[i - 2].ev = "visit"
               /\ last.log[i - 1].ev = "read"
               /\ last.log[i - 1].id = last.log[i - 2].id
               /\ last.log[i].schema = last.before[last.log[i - 2].id].schema
        /\ \A p \in Reach(last.before, last.consumer) :
               \A j \in VisitsOf(last.log, p) : (j + 2) \in Decrefs(last.log)
        /\ \A p \in Reach(last.before, last.consumer) :
               Cardinality(VisitsOf(last.log, p)) = 1

\* A graph of three reachable consumers: the root's reference is dropped
\* while its children have not been visited yet.
ReleaseAtVisit_Witness ==
    /\ last.op = "consumer_free"
    /\ Cardinality(Reach(last.before, last.consumer)) = NumConsumers
    /\ \E i \in Decrefs(last.log) :
           \E p \in Reach(last.before, last.consumer) :
               ~VisitedBefore(last.log, p, i)

(***************************************************************************)
(* The cache entry of a writer union while its resolver is built           *)
(* (raw_resolvers.c:461-497).                                              *)
(***************************************************************************)
\* The last call built a resolver for a writer union: the cache had no
\* entry for it and the raw type's own test did not accept it.
UnionBuilt ==
    /\ last.op = "memoized"
    /\ is_avro_union(last.wschema)
    /\ <<slot.X, last.wschema>> \notin DOMAIN last.mem_before

\* The log starts with the allocation of the union resolver, its schema
\* reference and its cache entry; whatever the branches do comes later.
EntryBeforeBranches(log, wschema) ==
    /\ Len(log) >= 3
    /\ log[1].ev = "alloc"
    /\ log[2].ev = "incref" /\ log[2].schema = wschema
    /\ log[3].ev = "memoize_set" /\ log[3].schema = wschema
    /\ log[3].id = log[1].id
    /\ \A i \in 4..Len(log) : log[i].ev = "alloc" => log[i].id # log[1].id

\* C22: the cache entry for (target key, writer union) is inserted before
\* any branch is resolved, stays bound to the returned resolver when the
\* build succeeds, and is removed when the build fails; whenever a memoized
\* resolve call has returned, no entry of the cache refers to a resolver
\* that has been freed.
C22_UnionCacheEntry ==
    /\ last.op = "memoized" => \A k \in DOMAIN mem : mem[k] \in DOMAIN heap
    /\ UnionBuilt =>
           /\ EntryBeforeBranches(last.log, last.wschema)
           /\ last.result # NULL =>
                  /\ <<slot.X, last.wschema>> \in DOMAIN mem
                  /\ mem[<<slot.X, last.wschema>>] = last.result
                  /\ last.result = last.log[3].id
                  /\ last.result \in DOMAIN heap
           /\ last.result = NULL =>
                  /\ <<slot.X, last.wschema>> \notin DOMAIN mem
                  /\ last.log[3].id \notin DOMAIN heap
                  /\ CountAt(last.log, "free", last.log[3].id) = 1

\* A failed build: the union resolver was entered into the cache, freed,
\* and its entry removed.
C22_Witness ==
    /\ UnionBuilt
    /\ last.result = NULL
    /\ avro_schema_union_size(last.wschema) = MaxBranches
    /\ CountAt(last.log, "memoize_set", last.log[3].id) = 1
    /\ CountAt(last.log, "free", last.log[3].id) = 1

\* A successful build with one branch that resolves and one that does not.
C22_WitnessBound ==
    /\ UnionBuilt
    /\ last.result # NULL
    /\ mem[<<slot.X, last.wschema>>] = last.result
    /\ NULL \in {heap[last.result].child_consumers[i] :
                    i \in DOMAIN heap[last.result].child_consumers}
    /\ Cardinality(DOMAIN mem) > 1

(***************************************************************************)
(* A raw resolver whose caller reads into a reader union: after            *)
(* avro_raw_X_resolver_new the caller may set branch_selector              *)
(* (avro/specific.h:105-117), and user_data then points to the union: the  *)
(* bytes at its own address (scalar, str), its discriminant and the        *)
(* storage of the selected branch.                                         *)
(***************************************************************************)
Container(own, discriminant, branch) ==
    [scalar |-> own.scalar, str |-> own.str, discriminant |-> discriminant,
     branch |-> branch]

InitContainer ==
    Container(Value(InitVal, avro_raw_string_init), 0,
              Value(InitVal, avro_raw_string_init))

InitSelect ==
    /\ heap = EmptyFun /\ mem = EmptyFun /\ refs = EmptyFun /\ err = ""
    /\ slot = [NoSlot EXCEPT !.dest = InitContainer] /\ bufs = EmptyFun
    /\ last = [op |-> "init"]
    /\ IdleMap

\* avro_raw_X_resolver_new, then resolver->branch_selector = selector.
SelectNewDone(X, selector, c) ==
    /\ heap' = [c.heap EXCEPT ![c.result].branch_selector = selector]
    /\ refs' = c.refs /\ err' = c.err
    /\ slot' = [slot EXCEPT !.X = X, !.consumer = c.result]
    /\ last' = [op |-> "select_new", X |-> X, selector |-> selector]
    /\ UNCHANGED <<mem, map, keybuf, bufs>>

SelectNew(X, selector) ==
    /\ last.op = "init"
    /\ SelectNewDone(X, selector,
           avro_raw_resolver_new(X, Prim(X), Ctx(heap, mem, refs, err)))

SelectConsumeDone(X, v, src, r) ==
    /\ slot' = [slot EXCEPT !.dest = r.dest]
    /\ bufs' = Discard(r.m.bufs, {src.lit, src.value.str.buf})
    /\ last' = [op |-> "select_consume", X |-> X, value |-> v, rc |-> r.rc,
                log |-> r.m.log, before |-> slot.dest,
                selector |-> heap[slot.consumer].branch_selector,
                in_branch |-> avro_raw_equals(X, r.m, Ptr(1, r.dest.branch),
                                              Ptr(2, src.value)),
                in_state |-> avro_raw_equals(X, r.m, Ptr(1, r.dest),
                                             Ptr(2, src.value))]
    /\ UNCHANGED <<heap, mem, refs, err, map, keybuf>>

SelectConsumeFrom(X, v, src) ==
    SelectConsumeDone(X, v, src,
        avro_raw_consume(X, Mem(src.m.bufs), src.value, heap[slot.consumer],
                         slot.dest))

SelectConsume(X, v) ==
    /\ slot.consumer # NULL
    /\ slot.X = X
    /\ SelectConsumeFrom(X, v, Source(X, v))

SelectFreeDone(c, b) ==
    /\ heap' = c.heap /\ refs' = c.refs
    /\ slot' = [NoSlot EXCEPT !.dest = InitContainer]
    /\ bufs' = avro_raw_string_done(Mem(b), slot.dest.branch.str).m.bufs
    /\ last' = [op |-> "select_free"]
    /\ UNCHANGED <<mem, err, map, keybuf>>

SelectFree ==
    /\ slot.consumer # NULL
    /\ SelectFreeDone(
           avro_consumer_free(slot.consumer, Ctx(heap, mem, refs, err)),
           avro_raw_string_done(Mem(bufs), slot.dest.str).m.bufs)

NextSelect ==
    \/ \E X \in RawTypes, selector \in BOOLEAN : SelectNew(X, selector)
    \/ \E X \in RawTypes : \E v \in RawValues(X) : SelectConsume(X, v)
    \/ SelectFree

SpecSelect == InitSelect /\ [][NextSelect]_vars

\* The bytes at the union's own address are as they were before the call.
OwnUnchanged ==
    /\ slot.dest.scalar = last.before.scalar
    /\ slot.dest.str = last.before.str

\* The storage of the branch is as it was before the call.
BranchUnchanged == slot.dest.branch = last.before.branch

\* With a selector: one call of it, the discriminant set, the value in the
\* branch it returned and nothing else written.  Without: no call, the value
\* in the incoming state, the discriminant and the branch untouched.
NarrowedStore ==
    /\ last.rc = 0
    /\ IF last.selector
       THEN /\ Count(last.log, "select") = 1
            /\ slot.dest.discriminant = SelectedBranch
            /\ OwnUnchanged
            /\ (last.X = "null" \/ C1_IsNaN \/ last.in_branch)
       ELSE /\ Count(last.log, "select") = 0
            /\ slot.dest.discriminant = last.before.discriminant
            /\ BranchUnchanged
            /\ (last.X = "null" \/ C1_IsNaN \/ last.in_state)

\* C23: every raw primitive value callback (boolean, bytes, double, float,
\* int, long, null, string) of a resolver with a non-null branch_selector
\* calls the selector exactly once on the incoming state and writes the
\* value only into the location the selector returned; with a null
\* branch_selector it writes directly into the incoming state.
C23_SelectorNarrows == last.op = "select_consume" => NarrowedStore

\* The same for the seven callbacks that store a value; the null callback
\* never calls the selector and writes nothing.
SelectorNarrowsStoringCallbacks ==
    last.op = "select_consume" =>
        IF last.X # "null" THEN NarrowedStore
        ELSE /\ last.rc = 0 /\ Count(last.log, "select") = 0
             /\ slot.dest = last.before

SelectorNarrowsStoringCallbacks_Witness ==
    /\ last.op = "select_consume" /\ last.selector
    /\ last.X = "string" /\ Len(last.value.content) = MaxStrLen
    /\ last.in_branch /\ ~last.in_state
    /\ slot.dest.discriminant = SelectedBranch

(***************************************************************************)
(* The order of definitions and references in the generator's output       *)
(* (schema_specific.c:241-260 and 415-559).  A definition is written by    *)
(* one WriteDefDefine step, so the definitions that are complete when a    *)
(* reference is written are those of the output before that step.          *)
(***************************************************************************)
Defined(out) == {out[j].name : j \in {k \in DOMAIN out : out[k].kind = "define"}}

\* The names of the schemas whose definition is in progress.
InProgress(ctx) == {get_schema_name(ctx.stack[i]) : i \in DOMAIN ctx.stack}

\* The entries a step has added to the output.
Added(old, new) == {i \in DOMAIN new : i > Len(old)}

RefKinds == {"ref", "recursive"}

\* The references a WriteDefDefine step writes are to complete definitions
\* unless marked recursive, and marked recursive exactly when the schema
\* referred to is on the stack.
OrderedStep(old, new) ==
    \A i \in Added(old.out, new.out) :
        new.out[i].kind \in RefKinds =>
            /\ new.out[i].kind = "ref" => new.out[i].name \in Defined(old.out)
            /\ new.out[i].kind = "recursive"
                   <=> new.out[i].name \in InProgress(old)

Defines == last.op = "children" /\ last'.op = "return"

\* C24: in the output of avro_schema_write_def every type reference that
\* is not marked 'recursive' refers to a type whose full definition was
\* emitted earlier, and a reference is marked 'recursive' exactly when the
\* definition of the referenced schema is still in progress (the schema is
\* on the schema stack); for every root schema, also a union or an array
\* that contains a recursive record.
C24_DefinitionsBeforeReferences ==
    [][Defines => OrderedStep(last.ctx, last'.ctx)]_vars

\* The same for the runs whose root is not an array, a map or a union that
\* the schemas inside it name again.
RootRepeated ==
    \E s \in Reachable :
        /\ s.type \in {"array", "map", "union"}
        /\ s # slot.schema
        /\ get_schema_name(s) = get_schema_name(slot.schema)

DefinitionsBeforeReferencesUnrepeatedRoot ==
    [][(Defines /\ ~RootRepeated) => OrderedStep(last.ctx, last'.ctx)]_vars

(***************************************************************************)
(* A get_or_create that cannot allocate (map.c:86-94).                     *)
(***************************************************************************)
\* Every index the key table records is one of an element of the map.
IndicesInRange(m) ==
    \A i \in DOMAIN m.indices_by_key :
        m.indices_by_key[i].record < m.elements.element_count

\* C25: a failed avro_raw_map_get_or_create (allocation failure, negative
\* return value) leaves the map unchanged: the size is unchanged and the
\* key is not present afterwards; and in every reachable state of the map
\* every index recorded in the key table is smaller than the map's size.
C25_FailedCreateLeavesMap ==
    /\ IndicesInRange(map)
    /\ (last.op = "get_or_create" /\ last.rc < 0) =>
           /\ map.elements.element_count = last.size_before
           /\ ~st_lookup(map.indices_by_key, keybuf, last.key).found

\* What holds of a failed call: the size is unchanged, nothing is stored
\* through element and index, and the key is in the table with the size
\* as its index.
FailedCreateKeepsSize ==
    (last.op = "get_or_create" /\ last.rc < 0) =>
        /\ last.rc = 0 - ENOMEM
        /\ map.elements.element_count = last.size_before
        /\ last.element = Unset /\ last.index = Unset
        /\ st_lookup(map.indices_by_key, keybuf, last.key).found
        /\ st_lookup(map.indices_by_key, keybuf, last.key).data
               = map.elements.element_count

(***************************************************************************)
(* union_branch called with any discriminant the decoder may have read     *)
(* (raw_resolvers.c:432-449): also one that is not an index of the child   *)
(* array that avro_consumer_allocate_children made (consumer.c:74-81).     *)
(***************************************************************************)
UnionBranchAny(consumer, discriminant, user_data, beyond) ==
    /\ heap[consumer].union_branch
    /\ discriminant < Len(heap[consumer].child_consumers) => beyond = NULL
    /\ UnionBranchDone(consumer, discriminant, user_data,
           avro_specific_writer_union_branch(Ctx(heap, mem, refs, err),
               consumer, discriminant, user_data, beyond))

NextBranch ==
    \/ \E X \in RawTypes, wschema \in WriterSchemas :
           \E z \in (IF wschema = Union(<<>>) THEN BOOLEAN ELSE {FALSE}) :
               ResolverNew(X, wschema, z)
    \/ \E consumer \in DOMAIN heap, discriminant \in 0..MaxBranches,
          user_data \in {1, 2}, beyond \in BeyondValues :
           UnionBranchAny(consumer, discriminant, user_data, beyond)
    \/ ConsumerFree

SpecBranch == Init /\ [][NextBranch]_vars

NothingStored ==
    /\ last.rc # 0
    /\ last.branch_consumer = Unset
    /\ last.branch_user_data = Unset

\* C26: avro_specific_writer_union_branch never reads child_consumers
\* outside [0, num_children): for a discriminant greater than or equal to
\* the number of writer-union branches it returns a non-zero error and
\* leaves *branch_consumer and *branch_user_data unwritten, exactly as it
\* does for a branch whose child resolver is null.
C26_DiscriminantInRange ==
    last.op = "union_branch" =>
        /\ Count(last.log, "out_of_bounds") = 0
        /\ last.discriminant >= Len(heap[last.consumer].child_consumers)
               => NothingStored
        /\ (/\ last.discriminant < Len(heap[last.consumer].child_consumers)
            /\ heap[last.consumer].child_consumers[last.discriminant + 1] = NULL)
               => NothingStored

\* What holds: a discriminant that is an index of the array is answered
\* from the array, with EINVAL and nothing stored for a null child.
DiscriminantInRangeAnswered ==
    (/\ last.op = "union_branch"
     /\ last.discriminant < Len(heap[last.consumer].child_consumers)) =>
        /\ Count(last.log, "out_of_bounds") = 0
        /\ IF heap[last.consumer].child_consumers[last.discriminant + 1] = NULL
           THEN NothingStored /\ last.rc = EINVAL
           ELSE /\ last.rc = 0
                /\ last.branch_consumer
                     = heap[last.consumer].child_consumers[last.discriminant + 1]
                /\ last.branch_user_data = last.user_data

(***************************************************************************)
(* SpecOutput: a generator used as its three functions allow               *)
(* (schema_specific.c:572-752): avro_specific_gen_open, then               *)
(* avro_specific_gen_output_schema on one schema after the other, each     *)
(* call a run of avro_schema_write_def on the same context, then           *)
(* avro_specific_gen_close.  slot.todo holds the schemas of the calls to   *)
(* come, slot.before the stack size at the start of the running call and   *)
(* slot.calls the number of calls made.                                    *)
(***************************************************************************)
OutputTables == {t \in FieldTables : Len(t.a) = 1}

OutputTodos ==
    {<<>>, <<GRecord("a")>>, <<GRecord("b")>>, <<GArray(GPrim("long"))>>}

OutputInputs ==
    {[schema |-> GRecord("a"), fields |-> t, fail_at |-> f, todo |-> n,
      before |-> 0, calls |-> 1] :
        t \in OutputTables, f \in 0..MaxFailAt, n \in OutputTodos}
    \cup {[schema |-> Chain(MAX_RECURSION_DEPTH + 1), fields |-> NoFields,
           fail_at |-> 0, todo |-> n, before |-> 0, calls |-> 1] :
        n \in OutputTodos}

InitOutput ==
    /\ slot \in OutputInputs
    /\ last = [op |-> "init", steps |-> 0]
    /\ bufs = EmptyFun
    /\ heap = EmptyFun /\ mem = EmptyFun /\ refs = EmptyFun /\ err = ""
    /\ IdleMap

\* The caller's next avro_specific_gen_output_schema, after the one before
\* has returned (with 0 or with an error).
OutputSchemaNext ==
    /\ last.op = "close"
    /\ slot.todo # <<>>
    /\ last' = [op |-> "call", ctx |-> [last.ctx EXCEPT !.rc = 0],
                pending |-> Head(slot.todo), rc |-> 0,
                steps |-> last.steps + 1]
    /\ slot' = [slot EXCEPT !.schema = Head(slot.todo),
                            !.todo = Tail(slot.todo),
                            !.before = Len(last.ctx.stack),
                            !.calls = @ + 1]
    /\ UNCHANGED <<heap, mem, refs, err, map, keybuf, bufs>>

NextOutput ==
    \/ ToSpecificOpen
    \/ WriteDefEnter
    \/ WriteDefChild
    \/ WriteDefDefine
    \/ WriteDefReturn
    \/ OutputSchemaNext
    \/ ToSpecificClose

SpecOutput == InitOutput /\ [][NextOutput]_vars

PrimitiveNames ==
    {"null", "boolean", "int", "long", "float", "double", "bytes", "string"}

\* avro_specific_gen_output_schema has returned to its caller.
OutputReturned == last.op = "close"

\* The stack is as high as before the call, and every started name that
\* stands for a layout has its definition in the output.
StackRestored(ctx) ==
    /\ Len(ctx.stack) = slot.before
    /\ \A n \in ctx.started \ PrimitiveNames : n \in Defined(ctx.out)

\* C27: when avro_specific_gen_output_schema returns, with success or with
\* an error, stack_size equals its value before the call and every name in
\* the started set has had its full definition emitted, so that a later
\* call on the same generator never marks a record as 'recursive' or skips
\* a definition because of state left over from an earlier call.
C27_OutputSchemaRestoresStack ==
    OutputReturned =>
        /\ StackRestored(last.ctx)
        /\ \A i \in DOMAIN last.ctx.out :
               last.ctx.out[i].kind = "ref" =>
                   \E j \in 1..(i - 1) :
                       /\ last.ctx.out[j].kind = "define"
                       /\ last.ctx.out[j].name = last.ctx.out[i].name

\* What holds: a call that returns 0 on a generator whose earlier calls all
\* returned 0 leaves the stack empty and every started layout defined.
OutputSchemaRestoresStackOnSuccess ==
    (OutputReturned /\ last.ctx.rc = 0 /\ slot.before = 0) =>
        StackRestored(last.ctx)

\* A second call, on the record whose first call failed, returns 0 without
\* having written the definition of the record.
LeftoverSkipsDefinition ==
    /\ OutputReturned /\ slot.calls = 2 /\ last.ctx.rc = 0
    /\ slot.schema = GRecord("a")
    /\ "a" \in last.ctx.started /\ "a" \notin Defined(last.ctx.out)

\* A second call, on an array of long, fails for the depth of the stack the
\* first call left behind.
LeftoverExceedsDepth ==
    /\ OutputReturned /\ slot.calls = 2
    /\ slot.schema = GArray(GPrim("long"))
    /\ slot.before = MAX_RECURSION_DEPTH
    /\ last.ctx.err = "Exceeded schema recursion depth"
    /\ "array_long" \notin last.ctx.started

(***************************************************************************)
(* SpecResources: what a run of avro_schema_to_specific allocates and      *)
(* frees (schema_specific.c:572-780).  g is the generator: the blocks that *)
(* are allocated (live), the fields of the context that are set (held),    *)
(* ctx->writer, and a log of allocations and frees.  The inputs name the   *)
(* step of avro_specific_gen_open that fails, what                         *)
(* avro_specific_gen_output_schema returns, and the step of                *)
(* avro_specific_gen_close that fails.                                     *)
(***************************************************************************)
NoWriter == "NULL"

NoGen == [live |-> {}, held |-> {}, writer |-> NoWriter, log |-> <<>>]

GenLog(g, e, id) == [g EXCEPT !.log = Append(@, [ev |-> e, id |-> id])]

\* avro_new, avro_strdup, avro_malloc: the block is stored in its field.
GenAlloc(g, id) ==
    GenLog([g EXCEPT !.live = @ \cup {id}, !.held = @ \cup {id}], "alloc", id)

\* avro_free, avro_str_free, avro_freet, avro_writer_free of a block.
GenFree(g, id) ==
    IF id \in g.live THEN GenLog([g EXCEPT !.live = @ \ {id}], "free", id)
    ELSE GenLog(g, "double_free", id)

\* if (ctx->field) { avro_free(ctx->field, ...); }
FreeIfHeld(g, id) == IF id \in g.held THEN GenFree(g, id) ELSE g

\* ctx->writer = avro_writer_file(fp);
avro_writer_file(g, id) ==
    GenLog([g EXCEPT !.live = @ \cup {id}, !.writer = id], "alloc", id)

\* avro_writer_free(ctx->writer); the field keeps the pointer.
avro_writer_free(g) == GenFree(g, g.writer)

\* The allocations of avro_specific_gen_open, in their order
\* (schema_specific.c:580-610).
OpenAllocs ==
    <<"ctx", "upper_type_prefix", "def_filename", "h_filename", "c_filename">>

OpenFailures ==
    {"none", "fopen", "write"} \cup {OpenAllocs[i] : i \in DOMAIN OpenAllocs}

CloseFailures ==
    {"none", "write_def", "fopen_h", "write_h", "fopen_c", "write_c"}

RECURSIVE OpenAllocated(_, _, _)
OpenAllocated(g, i, fail) ==
    IF i > Len(OpenAllocs) \/ OpenAllocs[i] = fail THEN g
    ELSE OpenAllocated(GenAlloc(g, OpenAllocs[i]), i + 1, fail)

\* The error label of avro_specific_gen_open (schema_specific.c:643-659).
OpenError(g) ==
    IF "ctx" \notin g.held THEN [g |-> g, ctx |-> FALSE]
    ELSE [g |-> GenFree(FreeIfHeld(FreeIfHeld(FreeIfHeld(FreeIfHeld(g,
                    "def_filename"), "h_filename"), "c_filename"),
                    "upper_type_prefix"), "ctx"),
          ctx |-> FALSE]

\* schema_specific.c:626-641, after the allocations.
OpenFile(g, fail) ==
    IF fail = "fopen" THEN OpenError(g)
    ELSE IF fail = "write" THEN OpenError(avro_writer_file(g, "writer_def"))
    ELSE [g |-> GenAlloc(avro_writer_file(g, "writer_def"), "started_schemas"),
          ctx |-> TRUE]

GenOpened(g, fail) ==
    IF fail \in {OpenAllocs[i] : i \in DOMAIN OpenAllocs} THEN OpenError(g)
    ELSE OpenFile(g, fail)

gen_open(fail) == GenOpened(OpenAllocated(NoGen, 1, fail), fail)

\* The error label of avro_specific_gen_close (schema_specific.c:733-751).
CloseError(g, rval) ==
    [g |-> GenFree(FreeIfHeld(FreeIfHeld(FreeIfHeld(FreeIfHeld(
               IF g.writer # NoWriter THEN avro_writer_free(g) ELSE g,
               "def_filename"), "h_filename"), "c_filename"),
               "upper_type_prefix"), "ctx"),
     rval |-> rval]

\* schema_specific.c:697-713: fopen, avro_writer_file, write and
\* avro_writer_free for the header file; the writer of the file before is
\* still in ctx->writer when fopen fails.
CloseFile(g, id, fail_fopen, fail_write, fail) ==
    IF fail = fail_fopen THEN [g |-> g, failed |-> TRUE]
    ELSE IF fail = fail_write
         THEN [g |-> avro_writer_file(g, id), failed |-> TRUE]
         ELSE [g |-> avro_writer_free(avro_writer_file(g, id)),
               failed |-> FALSE]

\* schema_specific.c:715-731: the source file, whose writer is freed at the
\* error label on every path.
CloseSource(g, fail) ==
    IF fail = "fopen_c" THEN CloseError(g, EINVAL)
    ELSE CloseError(avro_writer_file(g, "writer_c"),
                    IF fail = "write_c" THEN EINVAL ELSE 0)

CloseHeader(r, fail) ==
    IF r.failed THEN CloseError(r.g, EINVAL) ELSE CloseSource(r.g, fail)

\* schema_specific.c:688-695: the table, the end of the definition file.
CloseDefinition(g, fail) ==
    IF fail = "write_def" THEN CloseError(g, EINVAL)
    ELSE CloseHeader(
             CloseFile(avro_writer_free(g), "writer_h", "fopen_h", "write_h",
                       fail),
             fail)

gen_close(g, fail) == CloseDefinition(GenFree(g, "started_schemas"), fail)

ResourceInputs ==
    [open : OpenFailures, output : {0, EINVAL}, close : CloseFailures]

InitResources ==
    /\ slot \in ResourceInputs
    /\ last = [op |-> "init", g |-> NoGen, rval |-> 0]
    /\ bufs = EmptyFun
    /\ heap = EmptyFun /\ mem = EmptyFun /\ refs = EmptyFun /\ err = ""
    /\ IdleMap

ResourceStep(op, g, rval) ==
    /\ last' = [op |-> op, g |-> g, rval |-> rval]
    /\ UNCHANGED <<heap, mem, refs, err, slot, map, keybuf, bufs>>

\* schema_specific.c:767-772.
ResourcesOpened(r) ==
    IF r.ctx THEN ResourceStep("opened", r.g, 0)
    ELSE ResourceStep("done", r.g, EINVAL)

ResourcesOpen ==
    /\ last.op = "init"
    /\ ResourcesOpened(gen_open(slot.open))

\* schema_specific.c:774: what avro_specific_gen_output_schema returned.
ResourcesOutput ==
    /\ last.op = "opened"
    /\ ResourceStep("output", last.g, slot.output)

\* schema_specific.c:774-779: avro_specific_gen_close on both ways out.
ResourcesClosed(r) ==
    ResourceStep("done", r.g, IF last.rval # 0 THEN last.rval ELSE r.rval)

ResourcesClose ==
    /\ last.op = "output"
    /\ ResourcesClosed(gen_close(last.g, slot.close))

NextResources ==
    \/ ResourcesOpen
    \/ ResourcesOutput
    \/ ResourcesClose

SpecResources == InitResources /\ [][NextResources]_vars

GenCount(log, e, id) ==
    Cardinality({i \in DOMAIN log : log[i].ev = e /\ log[i].id = id})

Writers == {"writer_def", "writer_h", "writer_c"}

Buffers ==
    {"ctx", "upper_type_prefix", "def_filename", "h_filename", "c_filename"}

\* Every block of S that was allocated has been freed once and no more.
FreedExactlyOnce(g, S) ==
    \A id \in S :
        /\ GenCount(g.log, "double_free", id) = 0
        /\ GenCount(g.log, "free", id) = GenCount(g.log, "alloc", id)
        /\ id \notin g.live

\* C28: avro_specific_gen_close releases each resource exactly once on
\* every path: every avro_writer_t the generator holds or creates is freed
\* exactly once, also when writing fails or when opening the header file
\* or the source file fails, and the three filename buffers, the
\* upper-cased type prefix and the context itself are each freed exactly
\* once.
C28_CloseReleasesOnce ==
    (last.op = "done" /\ slot.open = "none") =>
        /\ FreedExactlyOnce(last.g, Writers)
        /\ FreedExactlyOnce(last.g, Buffers)

\* What holds: the buffers and the context are freed exactly once on every
\* path, and so are the writers unless an fopen of avro_specific_gen_close
\* or the first write of avro_specific_gen_open fails.
BuffersReleasedOnce ==
    last.op = "done" =>
        /\ FreedExactlyOnce(last.g, Buffers)
        /\ (slot.open = "none" /\ slot.close \notin {"fopen_h", "fopen_c"})
               => FreedExactlyOnce(last.g, Writers)

(***************************************************************************)
(* SpecNames: runs of avro_schema_to_specific on a record whose fields     *)
(* have layouts with names that look alike: two unions of null and an      *)
(* array, two unions of null and a primitive type, two arrays, an array    *)
(* of int beside a record called array_int.                                *)
(***************************************************************************)
NullOr(schema) == GUnion(<<GPrim("null"), schema>>)

NameFields ==
    {<<NullOr(GArray(GPrim("int"))), NullOr(GArray(GPrim("long")))>>,
     <<NullOr(GPrim("int")), NullOr(GPrim("long"))>>,
     <<GArray(GPrim("int")), GArray(GPrim("long"))>>,
     <<GArray(GPrim("int")), GRecord("array_int")>>,
     <<GArray(GPrim("int")), GArray(GPrim("int"))>>}

NameInputs ==
    {[schema |-> GRecord("a"),
      fields |-> [a |-> fa, array_int |-> <<GPrim("long")>>],
      fail_at |-> f] :
        fa \in NameFields, f \in 0..MaxFailAt}

InitNames ==
    /\ slot \in NameInputs
    /\ last = [op |-> "init", steps |-> 0]
    /\ bufs = EmptyFun
    /\ heap = EmptyFun /\ mem = EmptyFun /\ refs = EmptyFun /\ err = ""
    /\ IdleMap

SpecNames == InitNames /\ [][NextGen]_vars

Layouts == {s \in Reachable : s.type \in LayoutTypes}

Definitions(out) == {i \in DOMAIN out : out[i].kind = "define"}

KeysDiffer ==
    \A s \in Layouts, t \in Layouts :
        get_schema_name(s) = get_schema_name(t) => s = t

\* C29: two schemas reachable from the root that need different layouts
\* never get the same name key, so no layout that is referenced in the
\* output is skipped as already started: a run that succeeds has written a
\* definition for each of them.
C29_KeysIdentifyLayouts ==
    (last.op = "done" /\ last.rc = 0)
        => /\ KeysDiffer
           /\ Cardinality(Definitions(last.ctx.out)) = Cardinality(Layouts)

\* What holds: a run that succeeds has written one definition for each
\* layout when the keys differ, and fewer when they do not: a layout whose
\* key is started is skipped, and with it the layouts below it.
OneDefinitionWhenKeysDiffer ==
    (last.op = "done" /\ last.rc = 0)
        => /\ Cardinality(Definitions(last.ctx.out)) <= Cardinality(LayoutNames)
           /\ KeysDiffer
                  <=> Cardinality(Definitions(last.ctx.out))
                          = Cardinality(Layouts)

SameKeySkipped ==
    /\ last.op = "done" /\ last.rc = 0
    /\ slot.fields.a[2] = GRecord("array_int")
    /\ Where(last.ctx.out, "define", "array_int") # {}
    /\ Cardinality(Where(last.ctx.out, "define", "array_int")) = 1

Terminated(b, n) == Len(b) >= n + 1 /\ b[n + 1] = 0

\* C30: after any sequence of init, set, set_length, give, give_length and
\* clear on an avro_raw_string_t, size is at most allocated_size, and
\* directly after avro_raw_string_set_length(str, src, n) the buffer holds
\* at least n+1 bytes (the n data bytes followed by a NUL terminator),
\* whatever the previous contents or mode of the string.
C30_BoundsInvariant ==
    /\ slot.str.size <= slot.str.allocated_size
    /\ last.op = "set_length" =>
           /\ slot.str.buf \in DOMAIN bufs
           /\ Len(bufs[slot.str.buf]) = slot.str.allocated_size
           /\ slot.str.size = slot.held.length
           /\ Terminated(bufs[slot.str.buf], slot.held.length)
           /\ SubSeq(bufs[slot.str.buf], 1, slot.held.length)
                  = slot.held.content
           /\ Count(last.log, "overflow") = 0
           /\ Count(last.log, "bad_write") = 0

\* A set_length of MaxStrLen bytes on a string that held a copy in a
\* buffer of less than half the size needed.
C30_Witness ==
    /\ last.op = "set_length" /\ slot.held.length = MaxStrLen
    /\ last.before.held.mode = "set"
    /\ last.before.str.allocated_size > 0
    /\ 2 * last.before.str.allocated_size < MaxStrLen + 1
    /\ Terminated(bufs[slot.str.buf], MaxStrLen)

\* The same on a string that held a given buffer, and on a cleared one.
C30_WitnessGiven ==
    /\ last.op = "set_length" /\ slot.held.length = MaxStrLen
    /\ last.before.held.mode = "given"
    /\ last.before.str.allocated_size < MaxStrLen + 1
    /\ Terminated(bufs[slot.str.buf], MaxStrLen)

====
